---------------------------- MODULE Spec2Model ----------------------------
(***************************************************************************)
(* Model of the FIPE scraper (Fipely/web-scraping).                        *)
(*                                                                         *)
(*  Part I   FipeClient: pacing (_wait_for_rate_limit) and the tenacity    *)
(*           retry loop around _make_request (src/api/fipe_client.py).     *)
(*  Part II  ExtractionResult.merge and the identity keys of the five      *)
(*           entity kinds (src/models/fipe_models.py).                     *)
(*  Part III Serialization, the partial files and their consolidation      *)
(*           (src/utils/file_handler.py).                                  *)
(*  Part IV  Orchestrator.run: batches, workers, merge and the final file  *)
(*           (src/scrapers/orchestrator.py, src/main.py).                  *)
(*  Part V   The lookups of a run and of one worker, one by one            *)
(*           (src/scrapers/*.py, _extract_worker).                         *)
(*  Part VI  The clients of the workers of a sequential run.               *)
(*  Part VII Brand discovery, BrandScraper.extract.                        *)
(*                                                                         *)
(* Time is counted in ticks of 0.25 s, so that every configured duration   *)
(* of src/utils/config.py is an integer.  The client reads the clock only  *)
(* as time.time() - self._last_request_time, so the model keeps that       *)
(* difference (elapsed) instead of the two absolute values, and the        *)
(* distance between the last two dispatch timestamps (last_gap).           *)
(***************************************************************************)
EXTENDS Integers, Sequences, FiniteSets, TLC

VARIABLES
    cfg,                 \* Config values in effect (defaults or environment overrides)
    elapsed,             \* time.time() - FipeClient._last_request_time
    last_gap,            \* _last_request_time minus the value it held before
    dispatches,          \* number of transport dispatches of this client
    calls,               \* number of _make_request calls started on this client
    pc,                  \* "idle" | "running" | "returned" | "raised" (current call)
    attempt_number,      \* tenacity retry_state.attempt_number
    invocations,         \* transport invocations (session.post) of the current call
    history,             \* kind of every transport outcome of the current call
    lastOutcome,         \* the transport outcome of the last attempt
    waits,               \* the backoff sleeps tenacity made in the current call
    result,              \* the body returned to the caller
    error,               \* the exception delivered to the caller
    self,                \* the target ExtractionResult of merge
    other,               \* the source ExtractionResult of merge
    before,              \* self as it was before the last merge
    merges,              \* number of merges done
    lastMerge,           \* "none" | "other" | "again" | "self" | "orders": the last merge done
    orders,              \* two fresh results: other merged after self, and self after other
    partial_dir,         \* the files of PARTIAL_OUTPUT_DIR, in the order of their names
    listing,             \* what list_partial_files returned: positions in partial_dir
    final_file,          \* the file at FINAL_OUTPUT_FILE
    max_workers,         \* Orchestrator.max_workers
    run_pc,              \* where run() is: "new" | "loop" | "batch" | "merged" | "returned"
    periods,             \* the selected periods
    tasks,               \* the task list
    batch_idx,           \* the loop variable of the batch loop
    task_state,          \* per task: "pending" | "running" | "returned" | "caught" | "escaped"
    fragment,            \* per task: the dict its worker returned
    results,             \* the list _process_batch collects for the current batch
    final_result,        \* the running cumulative result
    returned,            \* what run() returned
    use_multiprocessing, \* Orchestrator.use_multiprocessing
    seq_idx,             \* idx, the loop variable of the sequential loop
    submissions,         \* per task: the loop positions at which it was handed to a worker
    step,                \* where the run and its worker are, lookup by lookup
    vehicle_type_codes,  \* Orchestrator.vehicle_type_codes
    start_period,        \* Orchestrator.start_period
    end_period,          \* Orchestrator.end_period
    vt_idx,              \* position of the loop over vehicle_type_codes
    period_idx,          \* position of BrandScraper.extract in its sorted periods
    brand_list,          \* the brands of the vehicle types looked up so far
    lookups,             \* every call of the client so far, in order
    worker_task,         \* the task the worker executes (position in tasks)
    model_objs,          \* the Model objects of the worker
    year_objs,           \* the YearModel objects of the worker; model is a position in model_objs
    model_idx,           \* the worker's position in the loop over its models
    year_idx,            \* the worker's position among the year-models
    worker_result,       \* the worker's ExtractionResult, holding references
    worker_error,        \* the worker's "except Exception" was entered
    worker_dict,         \* what the worker returned
    workers_started,     \* _extract_worker calls started by the sequential loop
    since_dispatch,      \* time since the last dispatch of any client of this process
    run_gap,             \* time between the last two dispatches of the task phase
    task_dispatches      \* dispatches of the task phase so far

clientVars == <<cfg, elapsed, last_gap, dispatches, calls,
                pc, attempt_number, invocations, history, lastOutcome, waits,
                result, error>>
mergeVars == <<self, other, before, merges, lastMerge, orders>>
diskVars == <<partial_dir, listing, final_file>>
runVars == <<max_workers, run_pc, periods, tasks, batch_idx, task_state, fragment,
             results, final_result, returned, use_multiprocessing, seq_idx, submissions>>
runRest == <<max_workers, run_pc, batch_idx, task_state, fragment,
             results, final_result, returned, use_multiprocessing, seq_idx, submissions>>
scrapeVars == <<step, vehicle_type_codes, start_period, end_period, vt_idx, period_idx, brand_list,
                lookups, worker_task, model_objs, year_objs, model_idx, year_idx,
                worker_result, worker_error, worker_dict>>
paceVars == <<workers_started, since_dispatch, run_gap, task_dispatches>>
vars == <<clientVars, mergeVars, diskVars, runVars, scrapeVars, paceVars>>

-----------------------------------------------------------------------------
(* Bounds of the model *)

MaxCalls == 2        \* _make_request calls per client
MaxJitter == 3       \* ticks that may pass between two steps of the client
MaxOversleep == 1    \* ticks time.sleep may sleep longer than asked
StartTime == 10      \* time.time() when the client is constructed (_last_request_time = 0)

-----------------------------------------------------------------------------
(* Config (src/utils/config.py), in ticks of 0.25 s *)

MAX_RETRIES == 5
INITIAL_BACKOFF == 4
MAX_BACKOFF == 240
BACKOFF_MULTIPLIER == 8
DELAY_BETWEEN_REQUESTS == 2

DefaultConfig ==
    [MAX_RETRIES |-> MAX_RETRIES,
     INITIAL_BACKOFF |-> INITIAL_BACKOFF,
     MAX_BACKOFF |-> MAX_BACKOFF,
     BACKOFF_MULTIPLIER |-> BACKOFF_MULTIPLIER,
     DELAY_BETWEEN_REQUESTS |-> DELAY_BETWEEN_REQUESTS]

\* Every value is read with os.getenv: an environment that overrides them so
\* that both ends of the backoff clamp are reached within the attempts allowed.
OverrideConfig ==
    [MAX_RETRIES |-> 4,
     INITIAL_BACKOFF |-> 6,
     MAX_BACKOFF |-> 12,
     BACKOFF_MULTIPLIER |-> 4,
     DELAY_BETWEEN_REQUESTS |-> 3]

Configs == {DefaultConfig, OverrideConfig}

-----------------------------------------------------------------------------
(* Text: a str is a sequence of one-character strings *)

UpperCase == <<"A","B","C","D","E","F","G","H","I","J","K","L","M",
               "N","O","P","Q","R","S","T","U","V","W","X","Y","Z">>
LowerCase == <<"a","b","c","d","e","f","g","h","i","j","k","l","m",
               "n","o","p","q","r","s","t","u","v","w","x","y","z">>

LowerChar(c) ==
    IF \E i \in 1..Len(UpperCase) : UpperCase[i] = c
    THEN LowerCase[CHOOSE i \in 1..Len(UpperCase) : UpperCase[i] = c]
    ELSE c

\* str.lower()
Lower(s) == [i \in 1..Len(s) |-> LowerChar(s[i])]

\* sub in s
Contains(sub, s) ==
    \E i \in 1..(Len(s) - Len(sub) + 1) : SubSeq(s, i, i + Len(sub) - 1) = sub

TIMEOUT_WORD == <<"t","i","m","e","o","u","t">>
BLOCKED_WORD == <<"b","l","o","c","k","e","d">>

-----------------------------------------------------------------------------
(* The transport: what session.post can yield *)

NoMsg == << >>
ErroMsgs ==
    { <<"T","i","m","e","o","u","t">>,
      <<"I","P"," ","B","L","O","C","K","E","D","!">>,
      <<"g","a","t","e","w","a","y"," ","t","i","m","e","O","U","T">>,
      <<"t","i","m","e"," ","o","u","t">>,
      <<"n","a","d","a">> }

\* response bodies: json is "invalid" (response.json() raises ValueError),
\* "list" or "dict"; a dict may hold an "erro" key
InvalidBody == [json |-> "invalid", hasErro |-> FALSE, erro |-> NoMsg, id |-> 0]
DataBodies ==
    { [json |-> "list", hasErro |-> FALSE, erro |-> NoMsg, id |-> 1],
      [json |-> "dict", hasErro |-> FALSE, erro |-> NoMsg, id |-> 1],
      [json |-> "dict", hasErro |-> FALSE, erro |-> NoMsg, id |-> 2] }
ErroBodies ==
    { [json |-> "dict", hasErro |-> TRUE, erro |-> m, id |-> 0] : m \in ErroMsgs }

OtherStatuses == {201, 404, 429, 499, 500, 503}

Outcomes ==
    { [kind |-> "response", status |-> 200, body |-> b] :
          b \in {InvalidBody} \cup DataBodies \cup ErroBodies }
    \cup { [kind |-> "response", status |-> s, body |-> InvalidBody] : s \in OtherStatuses }
    \cup { [kind |-> k, status |-> 0, body |-> InvalidBody] :
          k \in {"Timeout", "ConnectionError"} }

NoOutcome == [kind |-> "none", status |-> 0, body |-> InvalidBody]
NoBody == [json |-> "none", hasErro |-> FALSE, erro |-> NoMsg, id |-> 0]
NoError == [cls |-> "none", last_attempt |-> "none"]

-----------------------------------------------------------------------------
(* FipeClient._make_request, one attempt (the decorated function body) *)

Returned(b) == [tag |-> "return", data |-> b, exc |-> "none"]
Raised(e) == [tag |-> "raise", data |-> NoBody, exc |-> e]

\* the "erro" branch: some messages mean rate limiting
IsBlockingMessage(error_msg) ==
    Contains(TIMEOUT_WORD, Lower(error_msg)) \/ Contains(BLOCKED_WORD, Lower(error_msg))

\* HandleResponse with every status from 400 on taken for a server error
HandleResponse_ClientErrorsRetried(o) ==
    IF o.kind = "Timeout" THEN Raised("Timeout")
    ELSE IF o.kind = "ConnectionError" THEN Raised("ConnectionError")
    ELSE IF o.status = 429 THEN Raised("FipeRateLimitError")
    ELSE IF o.status # 200
         THEN IF o.status >= 400 THEN Raised("FipeRateLimitError")
              ELSE Raised("FipeRequestError")
    ELSE IF o.body.json = "invalid" THEN Raised("FipeRequestError")
    ELSE IF o.body.json = "dict" /\ o.body.hasErro
         THEN IF IsBlockingMessage(o.body.erro) THEN Raised("FipeRateLimitError")
              ELSE Raised("FipeRequestError")
    ELSE Returned(o.body)

\* what the try block makes of the transport's outcome o
HandleResponse(o) ==
    IF o.kind = "Timeout" THEN Raised("Timeout")
    ELSE IF o.kind = "ConnectionError" THEN Raised("ConnectionError")
    ELSE IF o.status = 429 THEN Raised("FipeRateLimitError")
    ELSE IF o.status # 200
         THEN IF o.status >= 500 THEN Raised("FipeRateLimitError")
              ELSE Raised("FipeRequestError")
    ELSE IF o.body.json = "invalid" THEN Raised("FipeRequestError")
    ELSE IF o.body.json = "dict" /\ o.body.hasErro
         THEN IF IsBlockingMessage(o.body.erro) THEN Raised("FipeRateLimitError")
              ELSE Raised("FipeRequestError")
    ELSE Returned(o.body)

\* SleepTime sleeping for the time elapsed instead of the time remaining
SleepTime_Elapsed(elapsed_now, delay) ==
    IF elapsed_now < delay THEN elapsed_now ELSE 0

\* _wait_for_rate_limit: the sleep it asks for, given
\* time.time() - self._last_request_time
SleepTime(elapsed_now, delay) ==
    IF elapsed_now < delay THEN delay - elapsed_now ELSE 0

-----------------------------------------------------------------------------
(* The @retry decorator (tenacity) *)

RECURSIVE Pow(_, _)
Pow(b, n) == IF n <= 0 THEN 1 ELSE b * Pow(b, n - 1)

Min2(a, b) == IF a <= b THEN a ELSE b
Max2(a, b) == IF a >= b THEN a ELSE b

\* RetryIfExceptionType without requests.exceptions.Timeout
RetryIfExceptionType_NoTimeout(exc) ==
    exc \in {"FipeRateLimitError", "ConnectionError"}

\* retry=retry_if_exception_type((FipeRateLimitError, ConnectionError, Timeout))
RetryIfExceptionType(exc) ==
    exc \in {"FipeRateLimitError", "ConnectionError", "Timeout"}

\* StopAfterAttempt stopping one attempt late
StopAfterAttempt_Late(n, max_attempt_number) == n > max_attempt_number

\* stop=stop_after_attempt(Config.MAX_RETRIES)
StopAfterAttempt(n, max_attempt_number) == n >= max_attempt_number

\* WaitExponential with the exponent one too high
WaitExponential_OffByOne(n, multiplier, min, max) ==
    LET exp == Pow(2, n)
        res == multiplier * exp
    IN  Max2(Max2(0, min), Min2(res, max))

\* wait=wait_exponential(multiplier, min, max), called after attempt n failed:
\* multiplier * 2 ** (n - 1), kept between min and max
WaitExponential(n, multiplier, min, max) ==
    LET exp == Pow(2, n - 1)
        res == multiplier * exp
    IN  Max2(Max2(0, min), Min2(res, max))

\* attempts exhausted: reraise is left at its default (False), so the caller
\* gets tenacity's RetryError holding the last attempt
ExhaustedError(exc) == [cls |-> "RetryError", last_attempt |-> exc]

\* an exception the retry predicate rejects leaves the call as it is
DirectError(exc) == [cls |-> exc, last_attempt |-> "none"]

-----------------------------------------------------------------------------
(* What the remote-call contract calls the transport's outcomes (spec 4.1, 7) *)

IsSuccessOutcome(o) ==
    /\ o.kind = "response" /\ o.status = 200
    /\ o.body.json # "invalid"
    /\ ~o.body.hasErro

IsTransientOutcome(o) ==
    \/ o.kind \in {"Timeout", "ConnectionError"}
    \/ o.kind = "response" /\ (o.status = 429 \/ o.status >= 500)
    \/ /\ o.kind = "response" /\ o.status = 200 /\ o.body.json = "dict" /\ o.body.hasErro
       /\ \E m \in {<<"T","i","m","e","o","u","t">>,
                    <<"I","P"," ","B","L","O","C","K","E","D","!">>,
                    <<"g","a","t","e","w","a","y"," ","t","i","m","e","O","U","T">>} :
             o.body.erro = m

OutcomeKind(o) ==
    IF IsSuccessOutcome(o) THEN "success"
    ELSE IF IsTransientOutcome(o) THEN "transient"
    ELSE "nonretryable"

-----------------------------------------------------------------------------
(* Part I: the client's state machine *)

ClientInit ==
    /\ cfg \in Configs
    /\ elapsed = StartTime
    /\ last_gap = 0
    /\ dispatches = 0
    /\ calls = 0
    /\ pc = "idle"
    /\ attempt_number = 0
    /\ invocations = 0
    /\ history = << >>
    /\ lastOutcome = NoOutcome
    /\ waits = << >>
    /\ result = NoBody
    /\ error = NoError

\* a caller enters _make_request (get_brands, get_models, ...)
StartCall ==
    /\ pc \in {"idle", "returned", "raised"}
    /\ calls < MaxCalls
    /\ calls' = calls + 1
    /\ pc' = "running"
    /\ attempt_number' = 1
    /\ invocations' = 0
    /\ history' = << >>
    /\ lastOutcome' = NoOutcome
    /\ waits' = << >>
    /\ result' = NoBody
    /\ error' = NoError
    /\ UNCHANGED <<cfg, elapsed, last_gap, dispatches>>

\* One attempt: _wait_for_rate_limit, session.post yielding o, the handling of
\* the response, and tenacity's decision (return, give up, or sleep and retry).
\* j ticks have passed since the previous step; every time.sleep oversleeps by s.
\* _last_request_time is set to the clock right after the pacing sleep, so it
\* moves by the time elapsed before the sleep plus the time slept.
Attempt(o, j, s) ==
    /\ pc = "running"
    /\ LET e1 == elapsed + j
           sleep_time == SleepTime(e1, cfg.DELAY_BETWEEN_REQUESTS)
           slept == IF sleep_time > 0 THEN sleep_time + s ELSE 0
           out == HandleResponse(o)
           retry == out.tag = "raise" /\ RetryIfExceptionType(out.exc)
           stop == StopAfterAttempt(attempt_number, cfg.MAX_RETRIES)
           wait == WaitExponential(attempt_number, cfg.BACKOFF_MULTIPLIER,
                                   cfg.INITIAL_BACKOFF, cfg.MAX_BACKOFF)
       IN  /\ last_gap' = e1 + slept
           /\ dispatches' = dispatches + 1
           /\ invocations' = invocations + 1
           /\ history' = Append(history, OutcomeKind(o))
           /\ lastOutcome' = o
           /\ IF out.tag = "return"
              THEN /\ pc' = "returned"
                   /\ result' = out.data
                   /\ elapsed' = 0
                   /\ UNCHANGED <<error, attempt_number, waits>>
              ELSE IF ~retry
              THEN /\ pc' = "raised"
                   /\ error' = DirectError(out.exc)
                   /\ elapsed' = 0
                   /\ UNCHANGED <<result, attempt_number, waits>>
              ELSE IF stop
              THEN /\ pc' = "raised"
                   /\ error' = ExhaustedError(out.exc)
                   /\ elapsed' = 0
                   /\ UNCHANGED <<result, attempt_number, waits>>
              ELSE /\ elapsed' = wait + s
                   /\ waits' = Append(waits, wait)
                   /\ attempt_number' = attempt_number + 1
                   /\ UNCHANGED <<pc, result, error>>
    /\ UNCHANGED <<cfg, calls>>

MergeIdle == UNCHANGED mergeVars

\* Ticks passed since the previous step when _wait_for_rate_limit reads the
\* clock: any time between two calls; after a backoff sleep only what the
\* sleep overslept, which the sleep itself accounts for.
Jitters == IF attempt_number = 1 THEN 0..MaxJitter ELSE {0}

ClientNext ==
    \/ StartCall /\ MergeIdle
    \/ \E o \in Outcomes, j \in Jitters, s \in 0..MaxOversleep :
          Attempt(o, j, s) /\ MergeIdle

-----------------------------------------------------------------------------
(* Part II: the entities of src/models/fipe_models.py *)

MaxEntities == 3     \* entities held by the two results together at the start

None == "None"

ReferencePeriod(period, code) == [period |-> period, code |-> code]

Brand(name, code, vehicle_type, initial_period) ==
    [name |-> name, code |-> code, vehicle_type |-> vehicle_type,
     initial_period |-> initial_period]

Model(name, code, fipe_code, brand, vehicle_type) ==
    [name |-> name, code |-> code, fipe_code |-> fipe_code, brand |-> brand,
     vehicle_type |-> vehicle_type]

YearModel(description, year_code, authentication, model) ==
    [description |-> description, year_code |-> year_code,
     authentication |-> authentication, model |-> model]

FipeValue(year_model, average_price, query_timestamp, reference_period, fipe_code, fuel) ==
    [year_model |-> year_model, average_price |-> average_price,
     query_timestamp |-> query_timestamp, reference_period |-> reference_period,
     fipe_code |-> fipe_code, fuel |-> fuel]

\* The entities the lookups of the model can produce.  Every kind has two
\* entries that are equal under __eq__ and differ in other attributes, and one
\* entry that is equal to neither; the models and year-models include entries
\* whose fipe_code / authentication is still empty.
P1  == ReferencePeriod("01/2024", 320)
P1x == ReferencePeriod("01/2024", 999)
P2  == ReferencePeriod("02/2024", 321)

B1  == Brand("FIAT", 21, "car", None)
B1x == Brand("FIAT", 21, "car", "01/2024")
B2  == Brand("FIAT", 21, "truck", None)

M0  == Model("UNO", 123, "", B1, "car")
M0x == Model("PALIO", 456, "", B1, "car")
M1  == Model("UNO", 123, "001004-9", B1, "car")
M1x == Model("UNO Mille", 124, "001004-9", B1x, "car")

Y0  == YearModel("2023 Gasolina", "2023-1", "", M1)
Y1  == YearModel("2024 Gasolina", "2024-1", "abc123", M1)
Y1x == YearModel("2024 Gasolina", "2024-1", "abc123", M0)

V1  == FipeValue(Y1, "R$ 35.000,00", 1, "01/2024", "001004-9", "Gasolina")
V1x == FipeValue(Y1x, "R$ 36.000,00", 2, "01/2024", "", "Gasolina")
V2  == FipeValue(Y1, "R$ 35.500,00", 3, "02/2024", "001004-9", "Gasolina")

Kinds == {"reference_periods", "brands", "models", "year_models", "fipe_values"}

Pool(kind) ==
    CASE kind = "reference_periods" -> {P1, P1x, P2}
      [] kind = "brands" -> {B1, B1x, B2}
      [] kind = "models" -> {M0, M0x, M1, M1x}
      [] kind = "year_models" -> {Y0, Y1, Y1x}
      [] kind = "fipe_values" -> {V1, V1x, V2}

\* __eq__ (and __hash__, which hashes the same fields) of each entity class
\* BrandEq comparing the name alone
BrandEq_NameOnly(a, b) == a.name = b.name

\* ModelEq comparing (name, vehicle_type) instead of (fipe_code, vehicle_type)
ModelEq_ByName(a, b) == a.name = b.name /\ a.vehicle_type = b.vehicle_type

\* FipeValueEq comparing the authentication alone
FipeValueEq_AuthOnly(a, b) == a.year_model.authentication = b.year_model.authentication

ReferencePeriodEq(a, b) == a.period = b.period
BrandEq(a, b) == a.name = b.name /\ a.vehicle_type = b.vehicle_type
ModelEq(a, b) == a.fipe_code = b.fipe_code /\ a.vehicle_type = b.vehicle_type
YearModelEq(a, b) == a.authentication = b.authentication
FipeValueEq(a, b) ==
    /\ a.year_model.authentication = b.year_model.authentication
    /\ a.reference_period = b.reference_period

EntityEq(kind, a, b) ==
    CASE kind = "reference_periods" -> ReferencePeriodEq(a, b)
      [] kind = "brands" -> BrandEq(a, b)
      [] kind = "models" -> ModelEq(a, b)
      [] kind = "year_models" -> YearModelEq(a, b)
      [] kind = "fipe_values" -> FipeValueEq(a, b)

\* ExtractionResult(): five lists, empty by default
EmptyResult == [k \in Kinds |-> << >>]

\* x in existing, for a set of entities: found by hash and __eq__
InSet(kind, x, existing) == \E e \in existing : EntityEq(kind, e, x)

Elems(seq) == {seq[i] : i \in 1..Len(seq)}

RECURSIVE MergeLoop_Overwrite(_, _, _, _, _, _)
\* MergeLoop with last-write-wins: an entry already present is replaced by the
\* incoming one
MergeLoop_Overwrite(kind, tgt, src, existing, i, aliased) ==
    LET read == IF aliased THEN tgt ELSE src
    IN  IF i > Len(read) THEN tgt
        ELSE IF ~InSet(kind, read[i], existing)
             THEN MergeLoop_Overwrite(kind, Append(tgt, read[i]), src,
                                      existing \cup {read[i]}, i + 1, aliased)
             ELSE MergeLoop_Overwrite(kind,
                      [j \in 1..Len(tgt) |->
                          IF EntityEq(kind, tgt[j], read[i]) THEN read[i] ELSE tgt[j]],
                      src, existing, i + 1, aliased)

RECURSIVE MergeLoop_NoAdd(_, _, _, _, _, _)
\* MergeLoop without "existing.add(x)": the set stays set(self.<kind>)
MergeLoop_NoAdd(kind, tgt, src, existing, i, aliased) ==
    LET read == IF aliased THEN tgt ELSE src
    IN  IF i > Len(read) THEN tgt
        ELSE IF ~InSet(kind, read[i], existing)
             THEN MergeLoop_NoAdd(kind, Append(tgt, read[i]), src, existing, i + 1, aliased)
             ELSE MergeLoop_NoAdd(kind, tgt, src, existing, i + 1, aliased)

\* One of the five loops of merge: "for x in other.<kind>", which reads the
\* list as it is when the loop gets to position i.  With aliased (other is
\* self) the list read is the one being appended to.
RECURSIVE MergeLoop(_, _, _, _, _, _)
MergeLoop(kind, tgt, src, existing, i, aliased) ==
    LET read == IF aliased THEN tgt ELSE src
    IN  IF i > Len(read) THEN tgt
        ELSE IF ~InSet(kind, read[i], existing)
             THEN MergeLoop(kind, Append(tgt, read[i]), src,
                            existing \cup {read[i]}, i + 1, aliased)
             ELSE MergeLoop(kind, tgt, src, existing, i + 1, aliased)

\* MergeList starting from an empty set instead of set(self.<kind>)
MergeList_EmptyExisting(kind, tgt, src, aliased) ==
    MergeLoop(kind, tgt, src, {}, 1, aliased)

\* one list of self after self.merge(other)
MergeList(kind, tgt, src, aliased) ==
    MergeLoop(kind, tgt, src, Elems(tgt), 1, aliased)

\* ExtractionResult.merge: self afterwards
Merge(target, source, aliased) ==
    [k \in Kinds |-> MergeList(k, target[k], source[k], aliased)]

-----------------------------------------------------------------------------
(* Part II: the state machine around merge *)

Size(r) ==
    Len(r["reference_periods"]) + Len(r["brands"]) + Len(r["models"])
    + Len(r["year_models"]) + Len(r["fipe_values"])

\* result.<kind>.append(e) on the target, as the code that builds a result
\* does for every entity it holds
AppendSelf(kind, e) ==
    /\ lastMerge = "none"
    /\ Size(self) + Size(other) < MaxEntities
    /\ self' = [self EXCEPT ![kind] = Append(@, e)]
    /\ before' = self'
    /\ UNCHANGED <<other, merges, lastMerge, orders>>

\* result.<kind>.append(e) on the source
AppendOther(kind, e) ==
    /\ lastMerge = "none"
    /\ Size(self) + Size(other) < MaxEntities
    /\ other' = [other EXCEPT ![kind] = Append(@, e)]
    /\ UNCHANGED <<self, before, merges, lastMerge, orders>>

NoOrders == [ab |-> EmptyResult, ba |-> EmptyResult]

MergeInit ==
    /\ self = EmptyResult
    /\ other = EmptyResult
    /\ before = EmptyResult
    /\ merges = 0
    /\ lastMerge = "none"
    /\ orders = NoOrders

\* self.merge(other); a second merge of the same source is recorded as "again"
MergeOther ==
    /\ lastMerge \in {"none", "other"}
    /\ before' = self
    /\ self' = Merge(self, other, FALSE)
    /\ merges' = merges + 1
    /\ lastMerge' = IF lastMerge = "other" THEN "again" ELSE "other"
    /\ UNCHANGED <<other, orders>>

\* self.merge(self)
MergeSelf ==
    /\ lastMerge \in {"none", "other"}
    /\ before' = self
    /\ self' = Merge(self, self, TRUE)
    /\ merges' = merges + 1
    /\ lastMerge' = "self"
    /\ UNCHANGED <<other, orders>>

\* r = ExtractionResult(); r.merge(first); r.merge(second)
MergeInto(first, second) == Merge(Merge(EmptyResult, first, FALSE), second, FALSE)

\* the two results merged into a fresh result, in both orders
MergeBothOrders ==
    /\ lastMerge = "none"
    /\ orders' = [ab |-> MergeInto(self, other), ba |-> MergeInto(other, self)]
    /\ merges' = merges + 2
    /\ lastMerge' = "orders"
    /\ UNCHANGED <<self, other, before>>

ClientIdle == UNCHANGED clientVars

MergeNext ==
    \/ \E k \in Kinds : \E e \in Pool(k) : AppendSelf(k, e) /\ ClientIdle
    \/ \E k \in Kinds : \E e \in Pool(k) : AppendOther(k, e) /\ ClientIdle
    \/ MergeOther /\ ClientIdle
    \/ MergeSelf /\ ClientIdle
    \/ MergeBothOrders /\ ClientIdle

-----------------------------------------------------------------------------
(* Part III: serialization and the partial files (src/utils/file_handler.py) *)

MaxFiles == 2          \* files in the partial directory
MaxFileEntities == 2   \* entities held by the files of the directory together

\* to_dict of the five entity classes: a dict with the fields of the entity,
\* the owner of a model, year-model or value nested as a dict
ReferencePeriodToDict(p) == [period |-> p.period, code |-> p.code]

BrandToDict(b) ==
    [name |-> b.name, code |-> b.code, vehicle_type |-> b.vehicle_type,
     initial_period |-> b.initial_period]

ModelToDict(m) ==
    [name |-> m.name, code |-> m.code, fipe_code |-> m.fipe_code,
     brand |-> BrandToDict(m.brand), vehicle_type |-> m.vehicle_type]

YearModelToDict(y) ==
    [description |-> y.description, year_code |-> y.year_code,
     authentication |-> y.authentication, model |-> ModelToDict(y.model)]

FipeValueToDict(v) ==
    [year_model |-> YearModelToDict(v.year_model), average_price |-> v.average_price,
     query_timestamp |-> v.query_timestamp, reference_period |-> v.reference_period,
     fipe_code |-> v.fipe_code, fuel |-> v.fuel]

EntityToDict(kind, e) ==
    CASE kind = "reference_periods" -> ReferencePeriodToDict(e)
      [] kind = "brands" -> BrandToDict(e)
      [] kind = "models" -> ModelToDict(e)
      [] kind = "year_models" -> YearModelToDict(e)
      [] kind = "fipe_values" -> FipeValueToDict(e)

\* ExtractionResult.to_dict: the five lists, each entry serialized in place
ToDict(r) ==
    [k \in Kinds |-> [i \in 1..Len(r[k]) |-> EntityToDict(k, r[k][i])]]

\* entities the files of the directory can hold besides those of Part II
P0 == ReferencePeriod("12/2023", 319)
B3 == Brand("AUDI", 6, "car", None)
M2 == Model("PALIO", 456, "001005-7", B1, "car")

FilePool(kind) ==
    CASE kind = "reference_periods" -> {P0, P1, P1x, P2}
      [] kind = "brands" -> {B1, B1x, B2, B3}
      [] kind = "models" -> {M0, M1, M1x, M2}
      [] kind = "year_models" -> {Y0, Y1, Y1x}
      [] kind = "fipe_values" -> {V1, V1x}

\* a file of the directory: json.load either fails on it or yields data
InvalidFile == [valid |-> FALSE, data |-> << >>]
JsonFile(data) == [valid |-> TRUE, data |-> data]


NoFile == [written |-> FALSE, data |-> ToDict(EmptyResult)]

\* dict.get(key, default)
Get(d, key, default) == IF key \in DOMAIN d THEN d[key] ELSE default

\* truth value of a key component: None and "" are false
Truthy(x) == x # None /\ x # ""

\* dict.get(key) on a cache filled in list order: the last entry of the list
\* with that key, if any
BrandCacheKey(b) == <<b.name, b.vehicle_type>>
ModelCacheKey(m) == <<m.fipe_code, m.vehicle_type>>
YearModelCacheKey(y) == <<y.authentication>>

CacheKey(kind, e) ==
    CASE kind = "brands" -> BrandCacheKey(e)
      [] kind = "models" -> ModelCacheKey(e)
      [] kind = "year_models" -> YearModelCacheKey(e)

CacheHit(list, kind, key) == \E i \in 1..Len(list) : CacheKey(kind, list[i]) = key

CacheGet(list, kind, key) ==
    LET hits == {i \in 1..Len(list) : CacheKey(kind, list[i]) = key}
    IN  list[CHOOSE i \in hits : \A j \in hits : j <= i]

BrandFromDict(d) == Brand(d.name, d.code, d.vehicle_type, d.initial_period)

\* ModelFromDict leaving out the fipe_code of the dict
ModelFromDict_NoFipeCode(d, brand) == Model(d.name, d.code, "", brand, d.vehicle_type)

ModelFromDict(d, brand) == Model(d.name, d.code, d.fipe_code, brand, d.vehicle_type)
YearModelFromDict(d, model) ==
    YearModel(d.description, d.year_code, d.authentication, model)

\* Orchestrator._dict_to_result: every list is rebuilt in order; an owner is
\* taken from the cache of the list rebuilt before, and rebuilt from the nested
\* dict when the cache has no entry with its key
DictToResult(data) ==
    LET p_dicts == Get(data, "reference_periods", << >>)
        b_dicts == Get(data, "brands", << >>)
        m_dicts == Get(data, "models", << >>)
        y_dicts == Get(data, "year_models", << >>)
        v_dicts == Get(data, "fipe_values", << >>)
        reference_periods == [i \in 1..Len(p_dicts) |->
                       ReferencePeriod(p_dicts[i].period, p_dicts[i].code)]
        brands == [i \in 1..Len(b_dicts) |-> BrandFromDict(b_dicts[i])]
        BrandOf(brand_dict) ==
            IF CacheHit(brands, "brands", BrandCacheKey(brand_dict))
            THEN CacheGet(brands, "brands", BrandCacheKey(brand_dict))
            ELSE BrandFromDict(brand_dict)
        models == [i \in 1..Len(m_dicts) |->
                      ModelFromDict(m_dicts[i], BrandOf(m_dicts[i].brand))]
        ModelOf(model_dict) ==
            IF CacheHit(models, "models", ModelCacheKey(model_dict))
            THEN CacheGet(models, "models", ModelCacheKey(model_dict))
            ELSE ModelFromDict(model_dict, BrandFromDict(model_dict.brand))
        year_models == [i \in 1..Len(y_dicts) |->
                           YearModelFromDict(y_dicts[i], ModelOf(y_dicts[i].model))]
        YearModelOf(year_dict) ==
            IF CacheHit(year_models, "year_models", YearModelCacheKey(year_dict))
            THEN CacheGet(year_models, "year_models", YearModelCacheKey(year_dict))
            ELSE YearModelFromDict(year_dict,
                     ModelFromDict(year_dict.model, BrandFromDict(year_dict.model.brand)))
        fipe_values == [i \in 1..Len(v_dicts) |->
                           FipeValue(YearModelOf(v_dicts[i].year_model),
                                     v_dicts[i].average_price, v_dicts[i].query_timestamp,
                                     v_dicts[i].reference_period, v_dicts[i].fipe_code,
                                     v_dicts[i].fuel)]
    IN  [k \in Kinds |->
            CASE k = "reference_periods" -> reference_periods
              [] k = "brands" -> brands
              [] k = "models" -> models
              [] k = "year_models" -> year_models
              [] k = "fipe_values" -> fipe_values]

\* The keys consolidate_partials deduplicates on, read from the dicts; the
\* first component decides whether the entry is taken at all.
ConsolidationKey(kind, d) ==
    CASE kind = "reference_periods" -> <<d.period>>
      [] kind = "brands" -> <<d.name, d.vehicle_type>>
      [] kind = "models" -> <<d.fipe_code, d.vehicle_type>>
      [] kind = "year_models" -> <<d.authentication, d.model.fipe_code>>
      [] kind = "fipe_values" -> <<d.year_model.authentication, d.reference_period>>

\* one "for entry in data.get(kind, [])" loop of consolidate_partials
RECURSIVE ConsolidateLoop(_, _, _, _, _)
ConsolidateLoop(kind, list, seen, entries, i) ==
    IF i > Len(entries) THEN [list |-> list, seen |-> seen]
    ELSE LET key == ConsolidationKey(kind, entries[i])
         IN  IF Truthy(key[1]) /\ key \notin seen
             THEN ConsolidateLoop(kind, Append(list, entries[i]), seen \cup {key},
                                  entries, i + 1)
             ELSE ConsolidateLoop(kind, list, seen, entries, i + 1)

RECURSIVE ConsolidateFiles_StopAtInvalid(_, _, _)
\* ConsolidateFiles ending the loop at the first file json.load fails on
ConsolidateFiles_StopAtInvalid(acc, files, i) ==
    IF i > Len(files) THEN acc
    ELSE IF ~files[i].valid THEN acc
    ELSE ConsolidateFiles_StopAtInvalid(
             [k \in Kinds |->
                 ConsolidateLoop(k, acc[k].list, acc[k].seen,
                                 Get(files[i].data, k, << >>), 1)],
             files, i + 1)

\* "for partial_file in partial_files": a file json.load fails on is skipped;
\* the five lists are looked up at the top level of the loaded data
RECURSIVE ConsolidateFiles(_, _, _)
ConsolidateFiles(acc, files, i) ==
    IF i > Len(files) THEN acc
    ELSE IF ~files[i].valid THEN ConsolidateFiles(acc, files, i + 1)
    ELSE ConsolidateFiles(
             [k \in Kinds |->
                 ConsolidateLoop(k, acc[k].list, acc[k].seen,
                                 Get(files[i].data, k, << >>), 1)],
             files, i + 1)

\* Python compares str by code point; the strings the sort keys can hold
CodePoints(str) ==
    CASE str = "" -> << >>
      [] str = "01/2024" -> <<48, 49, 47, 50, 48, 50, 52>>
      [] str = "02/2024" -> <<48, 50, 47, 50, 48, 50, 52>>
      [] str = "12/2023" -> <<49, 50, 47, 50, 48, 50, 51>>
      [] str = "car" -> <<99, 97, 114>>
      [] str = "truck" -> <<116, 114, 117, 99, 107>>
      [] str = "AUDI" -> <<65, 85, 68, 73>>
      [] str = "FIAT" -> <<70, 73, 65, 84>>
      [] str = "PALIO" -> <<80, 65, 76, 73, 79>>
      [] str = "UNO" -> <<85, 78, 79>>
      [] str = "UNO Mille" -> <<85, 78, 79, 32, 77, 105, 108, 108, 101>>

RECURSIVE SeqLess(_, _)
SeqLess(a, b) ==
    IF b = << >> THEN FALSE
    ELSE IF a = << >> THEN TRUE
    ELSE IF a[1] # b[1] THEN a[1] < b[1]
    ELSE SeqLess(Tail(a), Tail(b))

\* a < b for two str
StrLess(a, b) == SeqLess(CodePoints(a), CodePoints(b))

\* a < b for two tuples of str of one length
RECURSIVE TupleLess(_, _)
TupleLess(a, b) ==
    IF a = << >> THEN FALSE
    ELSE IF a[1] # b[1] THEN StrLess(a[1], b[1])
    ELSE TupleLess(Tail(a), Tail(b))

SortedKinds == {"reference_periods", "brands", "models"}

\* the key= functions of the three sorts
SortKey(kind, d) ==
    CASE kind = "reference_periods" -> <<d.period>>
      [] kind = "brands" -> <<d.vehicle_type, d.name>>
      [] kind = "models" -> <<d.vehicle_type, d.brand.name, d.name>>

\* SortReverse with no list sorted in reverse
SortReverse_Never(kind) == FALSE

\* reverse=True
SortReverse(kind) == kind = "reference_periods"

\* y is placed behind x
SortsAfter(kind, y, x) ==
    IF SortReverse(kind) THEN TupleLess(SortKey(kind, y), SortKey(kind, x))
    ELSE TupleLess(SortKey(kind, x), SortKey(kind, y))

\* list.sort is stable: an entry goes in front of the first entry that sorts
\* after it, behind every entry with an equal key that came before it
InsertSorted(kind, sorted, x) ==
    LET later == {j \in 1..Len(sorted) : SortsAfter(kind, sorted[j], x)}
        pos == IF later = {} THEN Len(sorted) + 1
               ELSE CHOOSE j \in later : \A l \in later : j <= l
    IN  SubSeq(sorted, 1, pos - 1) \o <<x>> \o SubSeq(sorted, pos, Len(sorted))

RECURSIVE SortList(_, _, _, _)
SortList(kind, list, sorted, i) ==
    IF i > Len(list) THEN sorted
    ELSE SortList(kind, list, InsertSorted(kind, sorted, list[i]), i + 1)

\* the consolidated dict written to the final file for the files read in the
\* given order
Consolidated(files) ==
    LET start == [k \in Kinds |-> [list |-> << >>, seen |-> {}]]
        acc == ConsolidateFiles(start, files, 1)
    IN  [k \in Kinds |->
            IF k \in SortedKinds THEN SortList(k, acc[k].list, << >>, 1)
            ELSE acc[k].list]

\* The orders list_partial_files can return: Path.glob yields the directory's
\* entries in no particular order and the list is not sorted.
ListPartialFiles ==
    {o \in [1..Len(partial_dir) -> 1..Len(partial_dir)] :
        \A i, j \in 1..Len(partial_dir) : i # j => o[i] # o[j]}

-----------------------------------------------------------------------------
(* Part III: the state machine of the partial directory *)

DirSize ==
    LET sizes == [i \in 1..Len(partial_dir) |->
                    IF partial_dir[i].valid
                    THEN Len(partial_dir[i].data["reference_periods"])
                         + Len(partial_dir[i].data["brands"])
                         + Len(partial_dir[i].data["models"])
                         + Len(partial_dir[i].data["year_models"])
                         + Len(partial_dir[i].data["fipe_values"])
                    ELSE 0]
        sum[i \in 0..Len(partial_dir)] == IF i = 0 THEN 0 ELSE sum[i - 1] + sizes[i]
    IN  sum[Len(partial_dir)]

DiskInit ==
    /\ partial_dir = << >>
    /\ listing = << >>
    /\ final_file = NoFile

\* save_partial(ExtractionResult().to_dict(), <next name>): a new file
\* holding a serialized result, or one whose write was cut short
NewFile(valid) ==
    /\ ~final_file.written
    /\ Len(partial_dir) < MaxFiles
    /\ partial_dir' = Append(partial_dir,
                             IF valid THEN JsonFile(ToDict(EmptyResult)) ELSE InvalidFile)
    /\ UNCHANGED <<listing, final_file>>

\* the result serialized into the newest file holds one more entity
AppendToFile(kind, e) ==
    /\ ~final_file.written
    /\ partial_dir # << >>
    /\ partial_dir[Len(partial_dir)].valid
    /\ DirSize < MaxFileEntities
    /\ partial_dir' = [partial_dir EXCEPT ![Len(partial_dir)].data[kind] =
                           Append(@, EntityToDict(kind, e))]
    /\ UNCHANGED <<listing, final_file>>

\* FileHandler.consolidate_partials(): nothing is written when the directory
\* holds no file
ConsolidatePartials ==
    /\ ~final_file.written
    /\ \E order \in ListPartialFiles :
          /\ listing' = order
          /\ final_file' =
                IF order = << >> THEN final_file
                ELSE [written |-> TRUE,
                      data |-> Consolidated([i \in 1..Len(order) |-> partial_dir[order[i]]])]
    /\ UNCHANGED partial_dir

DiskIdle == UNCHANGED diskVars

DiskNext ==
    \/ \E v \in BOOLEAN : NewFile(v)
    \/ \E k \in Kinds : \E e \in FilePool(k) : AppendToFile(k, e)
    \/ ConsolidatePartials

-----------------------------------------------------------------------------
(* Part IV: Orchestrator.run in parallel mode (src/scrapers/orchestrator.py) *)

MaxWorkers == 1      \* largest Config.MAX_WORKERS an orchestrator is built with

\* VehicleType.from_string
VehicleTypeCode(vehicle_type) ==
    CASE vehicle_type = "car" -> 1
      [] vehicle_type = "carro" -> 1
      [] vehicle_type = "bike" -> 2
      [] vehicle_type = "moto" -> 2
      [] vehicle_type = "truck" -> 3
      [] vehicle_type = "caminhao" -> 3

\* What the remote API answers: the models of a brand, the year-models of a
\* model (one each), and the value of a year-model.
ApiModels == <<[Label |-> "UNO", Value |-> 123], [Label |-> "PALIO", Value |-> 456]>>
ApiYearModel == [Label |-> "2024 Gasolina", Value |-> "2024-1"]
ApiValue(vehicle_type, model_code) ==
    LET row == CASE vehicle_type = "car" /\ model_code = 123 -> <<"abc123", "001004-9">>
                 [] vehicle_type = "car" /\ model_code = 456 -> <<"def456", "001005-7">>
                 [] vehicle_type = "truck" /\ model_code = 123 -> <<"ghi789", "501004-9">>
                 [] vehicle_type = "truck" /\ model_code = 456 -> <<"jkl012", "501005-7">>
    IN  [Autenticacao |-> row[1], CodigoFipe |-> row[2], Valor |-> "R$ 35.000,00",
         Combustivel |-> "Gasolina"]

\* datetime.now().isoformat() of a value lookup
QueryTimestamp == 1

\* the lists of periods and of brands the first two steps of run() can get
PeriodChoices == {<< >>, <<P1>>, <<P1, P2>>}
BrandChoices == {<<B1>>, <<B1, B2>>}

\* the pairs of them a run of the model starts from: every pair, and three
\* periods for one brand
PlanChoices ==
    {<<ps, bs>> : ps \in PeriodChoices, bs \in BrandChoices} \cup {<<<<P1, P2, P0>>, <<B1>>>>}

\* "for brand in brands: for period in periods: tasks.append(ExtractionTask(...))"
MakeTasks(ps, bs) ==
    [t \in 1..(Len(bs) * Len(ps)) |->
        LET brand == bs[((t - 1) \div Len(ps)) + 1]
            period == ps[((t - 1) % Len(ps)) + 1]
        IN  [task_id |-> t, period |-> ReferencePeriodToDict(period),
             brand |-> BrandToDict(brand),
             vehicle_type |-> VehicleTypeCode(brand.vehicle_type)]]

\* The body of the try block of _extract_worker from model i on.  served are
\* the models whose year-model and value lookups both gave a result (a failed
\* lookup is swallowed by the scraper); raise_at is the model during whose
\* processing an exception is raised (0: none), which ends the block.
RECURSIVE WorkerLoop(_, _, _, _, _, _)
WorkerLoop(period, brand, collected, i, served, raise_at) ==
    IF i <= Len(ApiModels) /\ raise_at = i THEN collected
    ELSE IF i > Len(ApiModels) THEN [collected EXCEPT !["brands"] = Append(@, brand)]
    ELSE IF i \in served
    THEN LET response == ApiValue(brand.vehicle_type, ApiModels[i].Value)
             model == Model(ApiModels[i].Label, ApiModels[i].Value, response.CodigoFipe,
                            brand, brand.vehicle_type)
             year_model == YearModel(ApiYearModel.Label, ApiYearModel.Value,
                                     response.Autenticacao, model)
             fipe_value == FipeValue(year_model, response.Valor, QueryTimestamp,
                                     period.period, response.CodigoFipe,
                                     response.Combustivel)
         IN  WorkerLoop(period, brand,
                        [collected EXCEPT !["year_models"] = Append(@, year_model),
                                       !["fipe_values"] = Append(@, fipe_value),
                                       !["models"] = Append(@, model)],
                        i + 1, served, raise_at)
    ELSE WorkerLoop(period, brand, collected, i + 1, served, raise_at)

\* _extract_worker(task): the exception is caught inside the worker, which
\* returns result.to_dict() whatever happened
ExtractWorker(task, served, raise_at) ==
    LET period == ReferencePeriod(task.period.period, task.period.code)
        brand == Brand(task.brand.name, task.brand.code, task.brand.vehicle_type,
                       task.brand.initial_period)
    IN  ToDict(WorkerLoop(period, brand, EmptyResult, 1, served, raise_at))

NoFragment == ToDict(EmptyResult)

\* what can happen inside a worker: which lookups are served, and where an
\* exception ends the try block (the models from there on are never looked up)
WorkerScenarios ==
    {sc \in [served : SUBSET (1..Len(ApiModels)), raise_at : 0..Len(ApiModels)] :
        sc.raise_at # 0 => \A i \in sc.served : i < sc.raise_at}

\* batch_size = self.max_workers * 2
BatchSize == max_workers * 2

\* BatchTasks reaching one task into the next batch
BatchTasks_Overlapping(idx) ==
    {t \in 1..Len(tasks) : idx < t /\ t <= idx + BatchSize + 1}

\* tasks[batch_idx:batch_idx + batch_size], as positions 1..len(tasks)
BatchTasks(idx) == {t \in 1..Len(tasks) : idx < t /\ t <= idx + BatchSize}

\* AsCompleted losing what was collected when a future raises
AsCompleted_DropAll(collected, raised, result_dict) ==
    IF raised THEN << >> ELSE Append(collected, result_dict)

\* the body of "for future in as_completed(...)": the result is appended, an
\* exception of future.result() is logged
AsCompleted(collected, raised, result_dict) ==
    IF raised THEN collected ELSE Append(collected, result_dict)

\* MergeResults merging the first result of the batch only
MergeResults_FirstOnly(acc, batch_results, i) ==
    IF batch_results = << >> THEN acc
    ELSE Merge(acc, DictToResult(batch_results[1]), FALSE)

\* "for result_dict in batch_results: final_result.merge(_dict_to_result(result_dict))"
RECURSIVE MergeResults(_, _, _)
MergeResults(acc, batch_results, i) ==
    IF i > Len(batch_results) THEN acc
    ELSE MergeResults(Merge(acc, DictToResult(batch_results[i]), FALSE),
                      batch_results, i + 1)

\* the number in the name of the partial file: batch_idx // batch_size
PartialFileNumber_Zero(i) == 0
PartialFileNumber(i) == i \div BatchSize

\* open(path, "w") in a directory whose files are batch_0.json, batch_1.json,
\* ...: the file with that number is replaced, or added after the others
WriteFile(dir, number, file) ==
    IF number < Len(dir) THEN [dir EXCEPT ![number + 1] = file] ELSE Append(dir, file)

\* SequentialStep dropping what was merged before
SequentialStep_Replace(acc, result_dict) == DictToResult(result_dict)

\* sequential mode: "result = self._dict_to_result(result_dict);
\* final_result.merge(result)"
SequentialStep(acc, result_dict) == Merge(acc, DictToResult(result_dict), FALSE)

\* enumerate(tasks) leaving out every second task
Enumerate_Skip(i) == i + 2

\* enumerate(tasks): the position after i
Enumerate(i) == i + 1

\* BatchSnapshot holding no data
BatchSnapshot_Empty(idx, r) == [batch |-> idx, data |-> ToDict(EmptyResult)]

\* the dict Orchestrator.run hands to save_partial
BatchSnapshot(idx, r) == [batch |-> idx, data |-> ToDict(r)]

-----------------------------------------------------------------------------
(* Part IV: the state machine of run() *)

Finished(t) == task_state[t] \in {"returned", "caught", "escaped"}

\* Orchestrator(..., use_multiprocessing): max_workers = Config.MAX_WORKERS
RunInit ==
    /\ max_workers \in 1..MaxWorkers
    /\ run_pc = "new"
    /\ periods = << >>
    /\ tasks = << >>
    /\ batch_idx = 0
    /\ task_state = << >>
    /\ fragment = << >>
    /\ results = << >>
    /\ final_result = EmptyResult
    /\ returned = EmptyResult
    /\ use_multiprocessing \in BOOLEAN
    /\ seq_idx = 0
    /\ submissions = << >>

\* run(), steps 1 and 2: the periods are selected, the brands fetched and the
\* tasks created; without periods run() returns an empty result at once
PlanRun(ps, bs) ==
    /\ run_pc = "new"
    /\ periods' = ps
    /\ IF ps = << >>
       THEN /\ run_pc' = "returned"
            /\ returned' = EmptyResult
            /\ UNCHANGED <<tasks, task_state, fragment, final_result, submissions>>
       ELSE /\ tasks' = MakeTasks(ps, bs)
            /\ task_state' = [t \in 1..(Len(bs) * Len(ps)) |-> "pending"]
            /\ fragment' = [t \in 1..(Len(bs) * Len(ps)) |-> NoFragment]
            /\ submissions' = [t \in 1..(Len(bs) * Len(ps)) |-> << >>]
            /\ final_result' = [EmptyResult EXCEPT !["reference_periods"] = ps]
            /\ run_pc' = "loop"
            /\ UNCHANGED returned
    /\ UNCHANGED <<max_workers, use_multiprocessing, seq_idx, batch_idx, results, diskVars>>

\* _process_batch: every task of the batch is submitted to the executor
SubmitBatch ==
    /\ run_pc = "loop"
    /\ use_multiprocessing
    /\ batch_idx < Len(tasks)
    /\ submissions' = [t \in DOMAIN submissions |->
                          IF t \in BatchTasks(batch_idx)
                          THEN Append(submissions[t], batch_idx) ELSE submissions[t]]
    /\ task_state' = [t \in DOMAIN task_state |->
                         IF t \in BatchTasks(batch_idx) THEN "running" ELSE task_state[t]]
    /\ results' = << >>
    /\ run_pc' = "batch"
    /\ UNCHANGED <<max_workers, use_multiprocessing, seq_idx, periods, tasks, batch_idx, fragment, final_result,
                   returned, diskVars>>

\* a worker returns its dict, and as_completed hands it to the collecting loop
WorkerReturns(t, served, raise_at) ==
    /\ run_pc = "batch"
    /\ t \in DOMAIN task_state
    /\ task_state[t] = "running"
    /\ LET result_dict == ExtractWorker(tasks[t], served, raise_at)
       IN  /\ fragment' = [fragment EXCEPT ![t] = result_dict]
           /\ results' = AsCompleted(results, FALSE, result_dict)
    /\ task_state' = [task_state EXCEPT ![t] = IF raise_at = 0 THEN "returned" ELSE "caught"]
    /\ UNCHANGED <<max_workers, use_multiprocessing, seq_idx, run_pc, periods, tasks, batch_idx, final_result,
                   returned, diskVars>>
    /\ UNCHANGED submissions

\* future.result() raises: the worker failed outside its try block, or its
\* process ended
WorkerFails(t) ==
    /\ run_pc = "batch"
    /\ t \in DOMAIN task_state
    /\ task_state[t] = "running"
    /\ results' = AsCompleted(results, TRUE, NoFragment)
    /\ task_state' = [task_state EXCEPT ![t] = "escaped"]
    /\ UNCHANGED <<max_workers, use_multiprocessing, seq_idx, run_pc, periods, tasks, batch_idx, fragment,
                   final_result, returned, diskVars>>
    /\ UNCHANGED submissions

\* the executor has been shut down (every future is done) and the results of
\* the batch are merged into final_result; the list of results is not used
\* again
MergeBatch ==
    /\ run_pc = "batch"
    /\ \A t \in DOMAIN task_state : task_state[t] # "running"
    /\ final_result' = MergeResults(final_result, results, 1)
    /\ results' = << >>
    /\ run_pc' = "merged"
    /\ UNCHANGED <<max_workers, use_multiprocessing, seq_idx, periods, tasks, batch_idx, task_state, fragment,
                   returned, diskVars>>
    /\ UNCHANGED submissions

\* FileHandler.save_partial({"batch": batch_idx, "data": final_result.to_dict()},
\* f"batch_{batch_idx // batch_size}.json"), and the loop goes on
SavePartial ==
    /\ run_pc = "merged"
    /\ partial_dir' = WriteFile(partial_dir, PartialFileNumber(batch_idx),
                                JsonFile(BatchSnapshot(batch_idx, final_result)))
    /\ batch_idx' = batch_idx + BatchSize
    /\ run_pc' = "loop"
    /\ UNCHANGED <<max_workers, use_multiprocessing, seq_idx, periods, tasks, task_state, fragment, results,
                   final_result, returned, listing, final_file>>
    /\ UNCHANGED submissions

\* sequential mode, one pass of "for idx, task in enumerate(tasks)": the worker
\* runs in this process and its dict is merged at once
RunTask(served, raise_at) ==
    /\ run_pc = "loop"
    /\ ~use_multiprocessing
    /\ seq_idx < Len(tasks)
    /\ LET t == seq_idx + 1
           result_dict == ExtractWorker(tasks[t], served, raise_at)
       IN  /\ fragment' = [fragment EXCEPT ![t] = result_dict]
           /\ final_result' = SequentialStep(final_result, result_dict)
           /\ task_state' = [task_state EXCEPT
                                ![t] = IF raise_at = 0 THEN "returned" ELSE "caught"]
           /\ submissions' = [submissions EXCEPT ![t] = Append(@, seq_idx)]
    /\ seq_idx' = Enumerate(seq_idx)
    /\ UNCHANGED <<max_workers, use_multiprocessing, run_pc, periods, tasks, batch_idx,
                   results, returned, diskVars>>

\* the loop is over: return final_result
ReturnResult ==
    /\ run_pc = "loop"
    /\ IF use_multiprocessing THEN batch_idx >= Len(tasks) ELSE seq_idx >= Len(tasks)
    /\ returned' = final_result
    /\ run_pc' = "returned"
    /\ UNCHANGED <<max_workers, use_multiprocessing, seq_idx, periods, tasks, batch_idx, task_state, fragment,
                   results, final_result, diskVars>>
    /\ UNCHANGED submissions

\* FipeScraper.run, after orchestrator.run(): _save_final_result(result) writes
\* result.to_dict() to the final file
SaveFinalResult ==
    /\ run_pc = "returned"
    /\ final_file' = [written |-> TRUE, data |-> ToDict(returned)]
    /\ run_pc' = "saved"
    /\ UNCHANGED <<max_workers, use_multiprocessing, seq_idx, periods, tasks, batch_idx,
                   task_state, fragment, results, final_result, returned, submissions,
                   partial_dir, listing>>

RunIdle == UNCHANGED runVars

\* Orchestrator.finalize(), after the run
Finalize ==
    /\ run_pc = "returned"
    /\ ConsolidatePartials
    /\ RunIdle

RunNext ==
    \/ \E plan \in PlanChoices : PlanRun(plan[1], plan[2])
    \/ SubmitBatch
    \/ \E t \in 1..Len(tasks), scenario \in WorkerScenarios :
          WorkerReturns(t, scenario.served, scenario.raise_at)
    \/ \E t \in 1..Len(tasks) : WorkerFails(t)
    \/ MergeBatch
    \/ SavePartial
    \/ ReturnResult
    \/ Finalize

\* run() in either mode, inside FipeScraper.run
ModeNext ==
    \/ RunNext
    \/ \E scenario \in WorkerScenarios : RunTask(scenario.served, scenario.raise_at)
    \/ SaveFinalResult

-----------------------------------------------------------------------------
(* Part V: the lookups of a run, one by one (src/scrapers/references.py,     *)
(* brands.py, models.py, values.py and _extract_worker)                      *)

\* str.split("/") is not modelled on strings: a raw "Mes" is kept as the list
\* of its parts, <<"janeiro", "2024">> for "janeiro/2024"
MonthNames ==
    [janeiro |-> "01", fevereiro |-> "02", dezembro |-> "12"]

\* ReferencePeriod.from_api_response
ReferencePeriodFromApi(data) ==
    LET parts == data.Mes
    IN  IF Len(parts) = 2
        THEN LET month_num == IF parts[1] \in DOMAIN MonthNames
                              THEN MonthNames[parts[1]] ELSE "01"
             IN  ReferencePeriod(month_num \o "/" \o parts[2], data.Codigo)
        ELSE ReferencePeriod(parts[1], data.Codigo)

\* int(str) for the numerals of the model
IntOf(str) ==
    CASE str = "01" -> 1 [] str = "02" -> 2 [] str = "12" -> 12
      [] str = "2023" -> 2023 [] str = "2024" -> 2024
      [] str = "6" -> 6 [] str = "21" -> 21 [] str = "22" -> 22

\* period_str.split("/") for the period strings of the model
SplitPeriod(period_str) ==
    CASE period_str = "01/2024" -> <<"01", "2024">>
      [] period_str = "02/2024" -> <<"02", "2024">>
      [] period_str = "12/2023" -> <<"12", "2023">>
      [] OTHER -> <<period_str>>

\* parse_period of filter_by_range: (year, month)
ParsePeriod(period_str) ==
    LET parts == SplitPeriod(period_str)
    IN  IF Len(parts) = 2 THEN <<IntOf(parts[2]), IntOf(parts[1])>> ELSE <<0, 0>>

\* a <= b for two (year, month) tuples
TupleLeq(a, b) == a[1] < b[1] \/ (a[1] = b[1] /\ a[2] <= b[2])

RECURSIVE SelectSeq2(_, _, _)
\* the entries of list from position i on that pass Keep, in order
SelectSeq2(list, keep, i) ==
    IF i > Len(list) THEN << >>
    ELSE IF keep[i] THEN <<list[i]>> \o SelectSeq2(list, keep, i + 1)
         ELSE SelectSeq2(list, keep, i + 1)

\* ReferenceScraper.filter_by_range
FilterByRange(period_list, start, end) ==
    IF start = None /\ end = None THEN period_list
    ELSE LET start_tuple == IF start # None THEN ParsePeriod(start) ELSE <<0, 0>>
             end_tuple == IF end # None THEN ParsePeriod(end) ELSE <<9999, 12>>
             keep == [i \in 1..Len(period_list) |->
                         /\ TupleLeq(start_tuple, ParsePeriod(period_list[i].period))
                         /\ TupleLeq(ParsePeriod(period_list[i].period), end_tuple)]
         IN  SelectSeq2(period_list, keep, 1)

\* the loop of ReferenceScraper.extract and of extract_for_single_period: an
\* entry is kept when no entry before it has its key
DedupFirst(kind, list) ==
    LET keep == [i \in 1..Len(list) |->
                    ~\E j \in 1..(i - 1) : EntityEq(kind, list[j], list[i])]
    IN  SelectSeq2(list, keep, 1)

\* max(periods, key=lambda p: p.period): the first entry no other entry's
\* period string is greater than
LatestPeriod(period_list) ==
    LET top == {i \in 1..Len(period_list) :
                   \A j \in 1..Len(period_list) :
                       ~StrLess(period_list[i].period, period_list[j].period)}
    IN  period_list[CHOOSE i \in top : \A j \in top : i <= j]

\* VehicleType.to_string
VehicleTypeToString(vehicle_code) ==
    CASE vehicle_code = 1 -> "car"
      [] vehicle_code = 2 -> "bike"
      [] vehicle_code = 3 -> "truck"
      [] OTHER -> "unknown"

\* Brand.from_api_response
BrandFromApi(data, vehicle_type, initial_period) ==
    Brand(data.Label, IntOf(data.Value), vehicle_type, initial_period)

\* Model.from_api_response
ModelFromApi(data, brand, vehicle_type, fipe_code) ==
    Model(data.Label, data.Value, fipe_code, brand, vehicle_type)

\* YearModelFromApi reading a year code the lookup did not return
YearModelFromApi_OtherYear(data, model, authentication) ==
    YearModel(data.Label, "2025-1", authentication, model)

\* YearModel.from_api_response; model is the position of the Model object
\* among the models of the worker (a reference, not a copy)
YearModelFromApi(data, model, authentication) ==
    YearModel(data.Label, data.Value, authentication, model)

\* what the remote API can answer
RawPeriod(code, month, year) == [Codigo |-> code, Mes |-> <<month, year>>]

RawPeriodChoices ==
    {<< >>,
     <<RawPeriod(321, "fevereiro", "2024"), RawPeriod(320, "janeiro", "2024")>>,
     <<RawPeriod(321, "fevereiro", "2024"), RawPeriod(320, "janeiro", "2024"),
       RawPeriod(999, "janeiro", "2024")>>,
     <<RawPeriod(320, "janeiro", "2024"), RawPeriod(319, "dezembro", "2023")>>}

RawBrandChoices ==
    {<<[Label |-> "FIAT", Value |-> "21"]>>,
     <<[Label |-> "FIAT", Value |-> "21"], [Label |-> "AUDI", Value |-> "6"],
       [Label |-> "FIAT", Value |-> "22"]>>}

RawModelChoices == {<< >>, ApiModels}

ApiYearModel2 == [Label |-> "2023 Gasolina", Value |-> "2023-1"]

RawYearChoices == {<< >>, <<ApiYearModel>>, <<ApiYearModel, ApiYearModel2>>}

\* the answers to a value lookup: the catalog code may be missing, and two
\* lookups for one model may name different codes
ValueResponses(year_code) ==
    {[Autenticacao |-> IF year_code = "2024-1" THEN "abc123" ELSE "xyz789",
      CodigoFipe |-> code, Valor |-> "R$ 35.000,00", Combustivel |-> "Gasolina"] :
        code \in {"", IF year_code = "2024-1" THEN "001004-9" ELSE "001005-7"}}

\* what Orchestrator is built with: vehicle_types, start_period, end_period
VehicleTypeChoices == {<<"car">>, <<"car", "truck">>, <<"car", "carro">>}
RangeChoices == {<<None, None>>, <<"02/2024", None>>, <<None, "01/2024">>}

\* one call of the client, as the log of the run keeps it: the endpoint's
\* level, the codes it was called with, whether it returned, and the codes of
\* the entries it returned
Lookup(level, args, ok, items) ==
    [level |-> level, args |-> args, ok |-> ok, items |-> items]

Codes(raw) == {raw[i].Value : i \in 1..Len(raw)}

NoTask == 0

\* the result of a worker, its lists holding references: a model is a
\* position in models, a year-model a position in year_objs
WorkerEmpty == [brands |-> << >>, models |-> << >>, year_models |-> << >>,
                fipe_values |-> << >>]

\* the objects behind the references, as to_dict finds them when the worker
\* returns
ResolveModel(m) == model_objs[m]
ResolveYearModel(y) ==
    YearModel(year_objs[y].description, year_objs[y].year_code,
              year_objs[y].authentication, ResolveModel(year_objs[y].model))
ResolveValue(v) ==
    FipeValue(ResolveYearModel(v.year_model), v.average_price, v.query_timestamp,
              v.reference_period, v.fipe_code, v.fuel)

Resolve(r) ==
    [k \in Kinds |->
        CASE k = "reference_periods" -> << >>
          [] k = "brands" -> r.brands
          [] k = "models" -> [i \in 1..Len(r.models) |-> ResolveModel(r.models[i])]
          [] k = "year_models" ->
                 [i \in 1..Len(r.year_models) |-> ResolveYearModel(r.year_models[i])]
          [] k = "fipe_values" ->
                 [i \in 1..Len(r.fipe_values) |-> ResolveValue(r.fipe_values[i])]]

\* ModelBackfill overwriting a code already set
ModelBackfill_Always(model, fipe_code) ==
    IF fipe_code # "" THEN [model EXCEPT !.fipe_code = fipe_code] ELSE model

\* "if fipe_code and not model.fipe_code: model.fipe_code = fipe_code"
ModelBackfill(model, fipe_code) ==
    IF fipe_code # "" /\ model.fipe_code = ""
    THEN [model EXCEPT !.fipe_code = fipe_code] ELSE model

\* AppendPair recording the year-model before the value is tested
AppendPair_YearAlways(r, year_model, fipe_value, found) ==
    IF found
    THEN [r EXCEPT !.year_models = Append(@, year_model),
                   !.fipe_values = Append(@, fipe_value)]
    ELSE [r EXCEPT !.year_models = Append(@, year_model)]

\* "if fipe_value: result.year_models.append(year_model);
\* result.fipe_values.append(fipe_value)"; found: extract_fipe_value did not
\* return None
AppendPair(r, year_model, fipe_value, found) ==
    IF found
    THEN [r EXCEPT !.year_models = Append(@, year_model),
                   !.fipe_values = Append(@, fipe_value)]
    ELSE r

\* AppendModel without the test of the fipe_code
AppendModel_Always(r, model_list, m) == [r EXCEPT !.models = Append(@, m)]

\* the worker's result after the inner loop of a model: "if model.fipe_code:
\* result.models.append(model)"
AppendModel(r, model_list, m) ==
    IF model_list[m].fipe_code # "" THEN [r EXCEPT !.models = Append(@, m)] ELSE r

\* the worker's result after the loop over the models: the brand is appended
AppendBrand(r, brand) == [r EXCEPT !.brands = Append(@, brand)]

-----------------------------------------------------------------------------
(* Part V: the state machine of the lookups *)

\* Orchestrator(start_period, end_period, vehicle_types): nothing looked up yet
ScrapeInit ==
    /\ step = "new"
    /\ \E vehicle_types \in VehicleTypeChoices :
          vehicle_type_codes =
              [i \in 1..Len(vehicle_types) |-> VehicleTypeCode(vehicle_types[i])]
    /\ \E range \in RangeChoices : start_period = range[1] /\ end_period = range[2]
    /\ vt_idx = 0
    /\ period_idx = 0
    /\ brand_list = << >>
    /\ lookups = << >>
    /\ worker_task = NoTask
    /\ model_objs = << >>
    /\ year_objs = << >>
    /\ model_idx = 0
    /\ year_idx = 0
    /\ worker_result = WorkerEmpty
    /\ worker_error = FALSE
    /\ worker_dict = NoFragment

\* the period and the brand a worker rebuilds from its task
TaskPeriod == ReferencePeriod(tasks[worker_task].period.period, tasks[worker_task].period.code)
TaskBrand ==
    Brand(tasks[worker_task].brand.name, tasks[worker_task].brand.code,
          tasks[worker_task].brand.vehicle_type, tasks[worker_task].brand.initial_period)

\* run(), step 1: ReferenceScraper.extract (a failed lookup gives no period)
\* and filter_by_range; without periods run() returns an empty result
ExtractPeriods(ok, raw) ==
    /\ step = "new"
    /\ LET all_periods ==
               IF ok
               THEN DedupFirst("reference_periods",
                               [i \in 1..Len(raw) |-> ReferencePeriodFromApi(raw[i])])
               ELSE << >>
           selected == FilterByRange(all_periods, start_period, end_period)
       IN  /\ periods' = selected
           /\ step' = IF selected = << >> THEN "returned" ELSE "brands"
    /\ lookups' = Append(lookups,
                         Lookup("periods", << >>, ok,
                                IF ok THEN {raw[i].Codigo : i \in 1..Len(raw)} ELSE {}))
    /\ vt_idx' = 1
    /\ UNCHANGED <<vehicle_type_codes, start_period, end_period, period_idx, brand_list, tasks,
                   worker_task, model_objs, year_objs, model_idx, year_idx, worker_result,
                   worker_error, worker_dict>>

\* StepAfterBrands ending the run when the brand lookup failed
StepAfterBrands_Abort(i, ok) ==
    IF ~ok THEN "returned"
    ELSE IF i = Len(vehicle_type_codes) THEN "planned" ELSE "brands"

\* where run() goes after the pass for the vehicle type at position i: to the
\* next vehicle type or on to the execution of the tasks, whether or not the
\* lookup returned (extract_for_single_period has caught the exception)
StepAfterBrands(i, ok) == IF i = Len(vehicle_type_codes) THEN "planned" ELSE "brands"

\* run(), step 2, one pass of "for vehicle_type_code in self.vehicle_type_codes":
\* extract_for_single_period(latest_period, vehicle_type_code) (a failed lookup
\* gives no brand) and a task for every brand and period
ExtractBrands(ok, raw) ==
    /\ step = "brands"
    /\ LET vehicle_type_code == vehicle_type_codes[vt_idx]
           latest_period == LatestPeriod(periods)
           brands ==
               IF ok
               THEN DedupFirst("brands",
                        [i \in 1..Len(raw) |->
                            BrandFromApi(raw[i], VehicleTypeToString(vehicle_type_code),
                                         latest_period.period)])
               ELSE << >>
       IN  /\ brand_list' = brand_list \o brands
           /\ tasks' = MakeTasks(periods, brand_list \o brands)
           /\ lookups' = Append(lookups,
                              Lookup("brands", <<latest_period.code, vehicle_type_code>>, ok,
                                     IF ok THEN {IntOf(raw[i].Value) : i \in 1..Len(raw)}
                                     ELSE {}))
    /\ vt_idx' = vt_idx + 1
    /\ step' = StepAfterBrands(vt_idx, ok)
    /\ UNCHANGED <<vehicle_type_codes, start_period, end_period, period_idx, periods,
                   worker_task, model_objs, year_objs, model_idx, year_idx, worker_result,
                   worker_error, worker_dict>>

\* _extract_worker(tasks[t]) starts: period and brand are rebuilt, the result
\* is empty
StartWorker(t) ==
    /\ step = "planned"
    /\ t \in 1..Len(tasks)
    /\ worker_task' = t
    /\ step' = "models"
    /\ UNCHANGED <<vehicle_type_codes, start_period, end_period, period_idx, vt_idx, brand_list,
                   lookups, periods, tasks, model_objs, year_objs, model_idx, year_idx,
                   worker_result, worker_error, worker_dict>>

\* StepAfterModel ending the loop over the models after any model
StepAfterModel_Abort(m) == "return"

\* where the worker goes when the inner loop of model m is over, and its
\* result then
StepAfterModel(m) == IF m >= Len(model_objs) THEN "return" ELSE "years"
ResultAfterModel(r, model_list, m) ==
    IF m >= Len(model_list)
    THEN AppendBrand(AppendModel(r, model_list, m), TaskBrand)
    ELSE AppendModel(r, model_list, m)

\* model_scraper.extract_for_brand(period, brand): a failed lookup gives no
\* model; without models the brand is appended at once
GetModels(ok, raw) ==
    /\ step = "models"
    /\ lookups' = Append(lookups,
                         Lookup("models",
                                <<TaskPeriod.code, VehicleTypeCode(TaskBrand.vehicle_type),
                                  TaskBrand.code>>,
                                ok, IF ok THEN Codes(raw) ELSE {}))
    /\ model_objs' = IF ok
                     THEN [i \in 1..Len(raw) |->
                              ModelFromApi(raw[i], TaskBrand, TaskBrand.vehicle_type, "")]
                     ELSE << >>
    /\ model_idx' = 1
    /\ IF ok /\ raw # << >>
       THEN step' = "years" /\ UNCHANGED worker_result
       ELSE step' = "return" /\ worker_result' = AppendBrand(worker_result, TaskBrand)
    /\ UNCHANGED <<vehicle_type_codes, start_period, end_period, period_idx, vt_idx, brand_list,
                   periods, tasks, worker_task, year_objs, year_idx, worker_error, worker_dict>>

\* value_scraper.extract_year_models(period, model) for the model at
\* model_idx: a failed lookup gives no year-model, and the loop over the
\* models goes on
GetYearModels(ok, raw) ==
    /\ step = "years"
    /\ lookups' = Append(lookups,
                         Lookup("year_models",
                                <<TaskPeriod.code, VehicleTypeCode(TaskBrand.vehicle_type),
                                  TaskBrand.code, model_objs[model_idx].code>>,
                                ok, IF ok THEN Codes(raw) ELSE {}))
    /\ year_idx' = Len(year_objs) + 1
    /\ IF ok /\ raw # << >>
       THEN /\ year_objs' = year_objs \o
                                [i \in 1..Len(raw) |-> YearModelFromApi(raw[i], model_idx, "")]
            /\ step' = "value"
            /\ UNCHANGED <<model_idx, worker_result>>
       ELSE /\ step' = StepAfterModel(model_idx)
            /\ worker_result' = ResultAfterModel(worker_result, model_objs, model_idx)
            /\ model_idx' = model_idx + 1
            /\ UNCHANGED year_objs
    /\ UNCHANGED <<vehicle_type_codes, start_period, end_period, period_idx, vt_idx, brand_list,
                   periods, tasks, worker_task, model_objs, worker_error, worker_dict>>

\* value_scraper.extract_fipe_value(period, year_model) for the year-model at
\* year_idx and what the worker does with the value: a failed lookup gives
\* None; a response sets the year-model's authentication, backfills the
\* model's fipe_code and the year-model and the value are appended.  After the
\* last year-model of the model the model is appended if it has a fipe_code.
GetFipeValue(ok, response) ==
    /\ step = "value"
    /\ LET year_model == year_objs[year_idx]
           model == model_objs[model_idx]
           fipe_value == [year_model |-> year_idx, average_price |-> response.Valor,
                          query_timestamp |-> QueryTimestamp,
                          reference_period |-> TaskPeriod.period,
                          fipe_code |-> response.CodigoFipe, fuel |-> response.Combustivel]
           model_after == IF ok
                          THEN ModelBackfill(ModelBackfill(model, response.CodigoFipe),
                                             fipe_value.fipe_code)
                          ELSE model
           models_after == [model_objs EXCEPT ![model_idx] = model_after]
           result_after == AppendPair(worker_result, year_idx, fipe_value, ok)
       IN  /\ lookups' = Append(lookups,
                              Lookup("value",
                                     <<TaskPeriod.code, VehicleTypeCode(TaskBrand.vehicle_type),
                                       TaskBrand.code, model.code, year_model.year_code>>,
                                     ok, IF ok THEN {response} ELSE {}))
           /\ year_objs' = IF ok
                           THEN [year_objs EXCEPT
                                    ![year_idx].authentication = response.Autenticacao]
                           ELSE year_objs
           /\ model_objs' = models_after
           /\ IF year_idx < Len(year_objs)
              THEN /\ year_idx' = year_idx + 1
                   /\ worker_result' = result_after
                   /\ UNCHANGED <<step, model_idx>>
              ELSE /\ year_idx' = year_idx + 1
                   /\ worker_result' = ResultAfterModel(result_after, models_after, model_idx)
                   /\ step' = StepAfterModel(model_idx)
                   /\ model_idx' = model_idx + 1
    /\ UNCHANGED <<vehicle_type_codes, start_period, end_period, period_idx, vt_idx, brand_list,
                   periods, tasks, worker_task, worker_error, worker_dict>>

\* an exception the scrapers do not catch is raised inside the try block (a
\* malformed item, an unknown vehicle type): "except Exception" logs it
RaiseInTry ==
    /\ step \in {"models", "years", "value"}
    /\ worker_error' = TRUE
    /\ step' = "return"
    /\ UNCHANGED <<vehicle_type_codes, start_period, end_period, period_idx, vt_idx, brand_list,
                   lookups, periods, tasks, worker_task, model_objs, year_objs, model_idx,
                   year_idx, worker_result, worker_dict>>

\* "return result.to_dict()"
WorkerReturn ==
    /\ step = "return"
    /\ worker_dict' = ToDict(Resolve(worker_result))
    /\ step' = "done"
    /\ UNCHANGED <<vehicle_type_codes, start_period, end_period, period_idx, vt_idx, brand_list,
                   lookups, periods, tasks, worker_task, model_objs, year_objs, model_idx,
                   year_idx, worker_result, worker_error>>

ScrapeIdle == UNCHANGED scrapeVars

ScrapeNext ==
    \/ \E raw \in RawPeriodChoices : ExtractPeriods(TRUE, raw)
    \/ ExtractPeriods(FALSE, << >>)
    \/ \E raw \in RawBrandChoices : ExtractBrands(TRUE, raw)
    \/ ExtractBrands(FALSE, << >>)
    \/ \E t \in 1..Len(tasks) : StartWorker(t)
    \/ \E raw \in RawModelChoices : GetModels(TRUE, raw)
    \/ GetModels(FALSE, << >>)
    \/ \E raw \in RawYearChoices : GetYearModels(TRUE, raw)
    \/ GetYearModels(FALSE, << >>)
    \/ /\ step = "value"
       /\ \E response \in ValueResponses(year_objs[year_idx].year_code) :
              GetFipeValue(TRUE, response)
    \/ GetFipeValue(FALSE, [Autenticacao |-> "", CodigoFipe |-> "", Valor |-> "",
                            Combustivel |-> ""])
    \/ RaiseInTry
    \/ WorkerReturn

-----------------------------------------------------------------------------
(* Part VII: brand discovery, BrandScraper.extract (src/scrapers/brands.py) *)

\* the list with x put after every entry whose period string is not greater
\* than x's
InsertByPeriod(sorted, x) ==
    LET after == {i \in 1..Len(sorted) : ~StrLess(x.period, sorted[i].period)}
        k == IF after = {} THEN 0 ELSE CHOOSE i \in after : \A j \in after : j <= i
    IN  SubSeq(sorted, 1, k) \o <<x>> \o SubSeq(sorted, k + 1, Len(sorted))

RECURSIVE SortedPeriods(_, _, _)
\* sorted(periods, key=lambda p: p.period): a stable sort on the period string
SortedPeriods(period_list, sorted, i) ==
    IF i > Len(period_list) THEN sorted
    ELSE SortedPeriods(period_list, InsertByPeriod(sorted, period_list[i]), i + 1)

RECURSIVE AddBrands(_, _, _)
\* "if key not in brands_dict: brands_dict[key] = brand" for the items from
\* position i on; the dict's values keep the order of insertion
AddBrands(brands_dict, brands, i) ==
    IF i > Len(brands) THEN brands_dict
    ELSE IF \E j \in 1..Len(brands_dict) : BrandEq(brands_dict[j], brands[i])
         THEN AddBrands(brands_dict, brands, i + 1)
         ELSE AddBrands(Append(brands_dict, brands[i]), brands, i + 1)

\* the periods and the vehicle types extract is called with
DiscoverPeriodChoices == {<<P1>>, <<P1, P0>>, <<P2, P1>>, <<P0, P2, P1>>}
DiscoverTypeChoices == {<<1>>, <<1, 3>>}

\* BrandScraper.extract(periods, vehicle_types) is called: nothing looked up
DiscoverInit ==
    /\ ScrapeInit
    /\ start_period = None /\ end_period = None
    /\ vehicle_type_codes \in DiscoverTypeChoices
    /\ periods \in DiscoverPeriodChoices

\* one pass of "for period in sorted_periods: for vehicle_type_code in
\* vehicle_types": get_brands, whose exception is logged ("continue"), and the
\* brands not seen before are put into brands_dict.  After the last pass the
\* values of brands_dict are returned.
DiscoverLookup(ok, raw) ==
    /\ step = "new"
    /\ LET sorted_periods == SortedPeriods(periods, << >>, 1)
           p == IF period_idx = 0 THEN 1 ELSE period_idx
           v == IF vt_idx = 0 THEN 1 ELSE vt_idx
           period == sorted_periods[p]
           vehicle_type_code == vehicle_type_codes[v]
           brands == IF ok
                     THEN [i \in 1..Len(raw) |->
                              BrandFromApi(raw[i], VehicleTypeToString(vehicle_type_code),
                                           period.period)]
                     ELSE << >>
           last_type == v = Len(vehicle_type_codes)
       IN  /\ brand_list' = AddBrands(brand_list, brands, 1)
           /\ lookups' = Append(lookups,
                              Lookup("discovery", <<period.period, vehicle_type_code>>, ok,
                                     IF ok THEN {raw[i].Label : i \in 1..Len(raw)} ELSE {}))
           /\ vt_idx' = IF last_type THEN 1 ELSE v + 1
           /\ period_idx' = IF last_type THEN p + 1 ELSE p
           /\ step' = IF last_type /\ p = Len(sorted_periods) THEN "discovered" ELSE "new"
    /\ UNCHANGED <<vehicle_type_codes, start_period, end_period, periods, tasks,
                   worker_task, model_objs, year_objs, model_idx, year_idx, worker_result,
                   worker_error, worker_dict>>

DiscoverNext ==
    \/ \E raw \in RawBrandChoices \cup {<< >>} : DiscoverLookup(TRUE, raw)
    \/ DiscoverLookup(FALSE, << >>)

-----------------------------------------------------------------------------
(* Part VI: the clients of the tasks of a sequential run (_extract_worker     *)
(* called from the loop of run(), one call after the other in one process)   *)

MaxSeqTasks == 2     \* tasks the sequential loop runs

\* the first task's worker has built its client; nothing dispatched yet
PaceInit ==
    /\ workers_started = 1
    /\ since_dispatch = StartTime
    /\ run_gap = 0
    /\ task_dispatches = 0

\* a lookup of the running worker starts
PaceStartCall == StartCall /\ UNCHANGED paceVars

\* an attempt of the running worker's client: the time that passed in this
\* step before the dispatch is what _last_request_time moved by beyond elapsed
PaceAttempt(o, j, s) ==
    /\ Attempt(o, j, s)
    /\ run_gap' = since_dispatch + (last_gap' - elapsed)
    /\ since_dispatch' = elapsed'
    /\ task_dispatches' = task_dispatches + 1
    /\ UNCHANGED workers_started

\* the worker of a task returns (client.close()) and the loop calls
\* _extract_worker for the next task: "client = FipeClient()", whose
\* _last_request_time is 0, so that time.time() - _last_request_time is the
\* clock itself
NextWorker ==
    /\ pc \in {"idle", "returned", "raised"}
    /\ workers_started < MaxSeqTasks
    /\ workers_started' = workers_started + 1
    /\ elapsed' = StartTime
    /\ last_gap' = 0
    /\ dispatches' = 0
    /\ calls' = 0
    /\ pc' = "idle"
    /\ attempt_number' = 0
    /\ invocations' = 0
    /\ history' = << >>
    /\ lastOutcome' = NoOutcome
    /\ waits' = << >>
    /\ result' = NoBody
    /\ error' = NoError
    /\ UNCHANGED <<cfg, since_dispatch, run_gap, task_dispatches>>

PaceIdle == UNCHANGED paceVars

PaceNext ==
    \/ PaceStartCall
    \/ \E o \in Outcomes, j \in Jitters, s \in 0..MaxOversleep : PaceAttempt(o, j, s)
    \/ NextWorker

-----------------------------------------------------------------------------
(* Specifications *)

ClientFixed ==
    /\ self = EmptyResult /\ other = EmptyResult /\ before = EmptyResult
    /\ merges = 0 /\ lastMerge = "none" /\ orders = NoOrders

MergeFixed ==
    /\ cfg = DefaultConfig /\ elapsed = StartTime /\ last_gap = 0
    /\ dispatches = 0 /\ calls = 0 /\ pc = "idle" /\ attempt_number = 0
    /\ invocations = 0 /\ history = << >> /\ lastOutcome = NoOutcome
    /\ waits = << >> /\ result = NoBody /\ error = NoError

DiskFixed == DiskInit

RunFixed == RunInit /\ max_workers = 1 /\ use_multiprocessing

ScrapeFixed ==
    /\ ScrapeInit
    /\ vehicle_type_codes = <<1>>
    /\ start_period = None /\ end_period = None

\* the client alone
Init == ClientInit /\ ClientFixed /\ DiskFixed /\ RunFixed /\ ScrapeFixed /\ PaceInit
Next == ClientNext /\ DiskIdle /\ RunIdle /\ ScrapeIdle /\ PaceIdle
Spec == Init /\ [][Next]_vars

\* merge alone
MergeSpecInit ==
    MergeInit /\ MergeFixed /\ DiskFixed /\ RunFixed /\ ScrapeFixed /\ PaceInit
MergeSpec ==
    MergeSpecInit /\ [][MergeNext /\ DiskIdle /\ RunIdle /\ ScrapeIdle /\ PaceIdle]_vars

\* the partial directory and its consolidation alone
DiskSpecInit ==
    DiskInit /\ ClientFixed /\ MergeFixed /\ RunFixed /\ ScrapeFixed /\ PaceInit
DiskSpec ==
    DiskSpecInit
        /\ [][DiskNext /\ ClientIdle /\ MergeIdle /\ RunIdle /\ ScrapeIdle /\ PaceIdle]_vars

\* a parallel run that starts with an empty partial directory, and finalize
RunSpecInit ==
    /\ RunInit /\ use_multiprocessing /\ DiskInit /\ ClientFixed /\ MergeFixed
    /\ ScrapeFixed /\ PaceInit
RunSpec ==
    RunSpecInit /\ [][RunNext /\ ClientIdle /\ MergeIdle /\ ScrapeIdle /\ PaceIdle]_vars

\* a run in either mode inside FipeScraper.run, and finalize
ModeSpecInit ==
    RunInit /\ DiskInit /\ ClientFixed /\ MergeFixed /\ ScrapeFixed /\ PaceInit
ModeSpec ==
    ModeSpecInit /\ [][ModeNext /\ ClientIdle /\ MergeIdle /\ ScrapeIdle /\ PaceIdle]_vars

\* the lookups of a run up to the task list, and of one worker
ScrapeSpecInit ==
    /\ ScrapeInit /\ PaceInit /\ DiskInit /\ ClientFixed /\ MergeFixed
    /\ RunInit /\ max_workers = 1 /\ use_multiprocessing
ScrapeSpec ==
    ScrapeSpecInit
        /\ [][ScrapeNext /\ ClientIdle /\ MergeIdle /\ DiskIdle /\ PaceIdle
               /\ UNCHANGED runRest]_vars

\* brand discovery alone
DiscoverSpecInit ==
    /\ DiscoverInit /\ PaceInit /\ DiskInit /\ ClientFixed /\ MergeFixed
    /\ max_workers = 1 /\ use_multiprocessing = TRUE /\ run_pc = "new" /\ tasks = << >>
    /\ batch_idx = 0 /\ task_state = << >> /\ fragment = << >> /\ results = << >>
    /\ final_result = EmptyResult /\ returned = EmptyResult /\ seq_idx = 0
    /\ submissions = << >>
DiscoverSpec ==
    DiscoverSpecInit
        /\ [][DiscoverNext /\ ClientIdle /\ MergeIdle /\ DiskIdle /\ PaceIdle
               /\ UNCHANGED runRest]_vars

\* the clients of the workers of a sequential run, one after the other
PaceSpecInit == ClientInit /\ PaceInit /\ ClientFixed /\ DiskFixed /\ RunFixed /\ ScrapeFixed
PaceSpec == PaceSpecInit /\ [][PaceNext /\ MergeIdle /\ DiskIdle /\ RunIdle /\ ScrapeIdle]_vars

-----------------------------------------------------------------------------
(* Properties of the client *)

AllTransient(h) == \A i \in 1..Len(h) : h[i] = "transient"

Clamp(x, lo, hi) == IF x < lo THEN lo ELSE IF x > hi THEN hi ELSE x

\* C1: when the transport has yielded k transient outcomes (k < MAX_RETRIES)
\* the call is still going, and when it then yields a success the call returns
\* that success body after exactly k+1 transport invocations.
C1_RetryThenSuccess ==
    LET n == Len(history)
    IN  /\ (n >= 1 /\ n < cfg.MAX_RETRIES /\ AllTransient(history))
            => (pc = "running" /\ invocations = n /\ attempt_number = n + 1)
        /\ (n >= 1 /\ n <= cfg.MAX_RETRIES /\ AllTransient(SubSeq(history, 1, n - 1))
              /\ history[n] = "success")
            => (pc = "returned" /\ result = lastOutcome.body /\ invocations = n)

C1_Witness ==
    /\ pc = "returned"
    /\ history = <<"transient", "transient", "success">>
    /\ invocations = 3
    /\ result = [json |-> "dict", hasErro |-> FALSE, erro |-> NoMsg, id |-> 2]

\* C2: when every transport attempt yields a transient outcome, the call ends
\* with an error after exactly MAX_RETRIES transport invocations: it is still
\* running before that, and never invokes the transport more often.
C2_RetryExhaustion ==
    (history # << >> /\ AllTransient(history))
        => /\ invocations = Len(history)
           /\ invocations <= cfg.MAX_RETRIES
           /\ (invocations < cfg.MAX_RETRIES => pc = "running")
           /\ (invocations = cfg.MAX_RETRIES => pc = "raised" /\ error # NoError)

C2_Witness ==
    /\ cfg = DefaultConfig
    /\ pc = "raised"
    /\ Len(history) = MAX_RETRIES
    /\ AllTransient(history)
    /\ invocations = MAX_RETRIES

\* C3: when the attempts are exhausted, the error the caller gets is the last
\* retryable error itself (the one the final attempt raised), not a wrapper.
C3_ExhaustionReraisesLast ==
    (pc = "raised" /\ AllTransient(history))
        => /\ error.cls = HandleResponse(lastOutcome).exc
           /\ error.cls \in {"FipeRateLimitError", "ConnectionError", "Timeout"}

\* C4: a non-retryable outcome ends the call at once with FipeRequestError:
\* no attempt follows it, no backoff wait follows it, and when it is the first
\* outcome the transport has been invoked exactly once.
C4_NonRetryableShortCircuit ==
    \A i \in 1..Len(history) :
        history[i] = "nonretryable"
            => /\ i = Len(history)
               /\ pc = "raised"
               /\ error = [cls |-> "FipeRequestError", last_attempt |-> "none"]
               /\ invocations = i
               /\ Len(waits) = i - 1

C4_Witness ==
    /\ pc = "raised"
    /\ history = <<"nonretryable">>
    /\ lastOutcome.status = 404
    /\ invocations = 1
    /\ waits = << >>

\* C5: the timestamps of two consecutive transport dispatches of one client
\* (retries of one call included) are at least DELAY_BETWEEN_REQUESTS apart.
C5_Pacing ==
    dispatches >= 2
        => last_gap >= cfg.DELAY_BETWEEN_REQUESTS

\* the second call's first dispatch came right after the first call: the pacing
\* sleep was needed and made the gap exactly the delay
C5_Witness ==
    /\ calls = 2
    /\ invocations = 1
    /\ dispatches >= 2
    /\ last_gap = cfg.DELAY_BETWEEN_REQUESTS

\* C6: the backoff wait before attempt k (k >= 2) is
\* clamp(multiplier * 2^(k-2), INITIAL_BACKOFF, MAX_BACKOFF); every wait is
\* between INITIAL_BACKOFF and MAX_BACKOFF, and attempt k is dispatched at least
\* that wait after attempt k-1.
C6_Backoff ==
    /\ pc = "running" => Len(waits) = attempt_number - 1
    /\ \A k \in 2..(Len(waits) + 1) :
          /\ waits[k - 1] = Clamp(cfg.BACKOFF_MULTIPLIER * Pow(2, k - 2),
                                  cfg.INITIAL_BACKOFF, cfg.MAX_BACKOFF)
          /\ waits[k - 1] >= cfg.INITIAL_BACKOFF
          /\ waits[k - 1] <= cfg.MAX_BACKOFF
    /\ invocations >= 2
          => last_gap >= waits[invocations - 1]

\* both ends of the clamp have acted
C6_Witness ==
    /\ Len(waits) = 3
    /\ invocations = 4
    /\ waits[1] = cfg.INITIAL_BACKOFF /\ cfg.BACKOFF_MULTIPLIER < cfg.INITIAL_BACKOFF
    /\ waits[3] = cfg.MAX_BACKOFF /\ cfg.BACKOFF_MULTIPLIER * 4 > cfg.MAX_BACKOFF

-----------------------------------------------------------------------------
(* Properties of merge *)

\* the identity keys of the data model (spec section 3)
IdentityKey(kind, e) ==
    CASE kind = "reference_periods" -> <<e.period>>
      [] kind = "brands" -> <<e.name, e.vehicle_type>>
      [] kind = "models" -> <<e.fipe_code, e.vehicle_type>>
      [] kind = "year_models" -> <<e.authentication>>
      [] kind = "fipe_values" -> <<e.year_model.authentication, e.reference_period>>

KeysOf(kind, seq) == {IdentityKey(kind, seq[i]) : i \in 1..Len(seq)}

CountKey(kind, seq, key) ==
    Cardinality({i \in 1..Len(seq) : IdentityKey(kind, seq[i]) = key})

IsPrefix(p, q) == Len(p) <= Len(q) /\ \A i \in 1..Len(p) : q[i] = p[i]

\* the source of the last merge
LastSource == IF lastMerge = "self" THEN before ELSE other

\* C7: after merge(target, source) the identity keys of every kind in target are
\* the keys target had before together with the keys of source, and every entry
\* target held before is still there at the same position.
C7_MergeUnion ==
    lastMerge \in {"other", "again", "self"}
        => \A k \in Kinds :
              /\ KeysOf(k, self[k]) = KeysOf(k, before[k]) \cup KeysOf(k, LastSource[k])
              /\ IsPrefix(before[k], self[k])

\* the merge added one brand and dropped another whose key target already had
C7_Witness ==
    /\ lastMerge = "other"
    /\ before["brands"] = <<B1>>
    /\ other["brands"] = <<B1x, B2>>
    /\ self["brands"] = <<B1, B2>>

\* C8: merge(R, R) leaves the count of every entity kind in R unchanged, and
\* merging the same source into a target a second time adds nothing.
C8_MergeIdempotent ==
    /\ lastMerge = "self" => \A k \in Kinds : Len(self[k]) = Len(before[k])
    /\ lastMerge = "again" => self = before

\* R merged into itself, R holding two entries with one key
C8_Witness ==
    /\ lastMerge = "self"
    /\ before["models"] = <<M0, M0x>>
    /\ Len(self["models"]) = 2
    /\ Size(self) = 3

\* the same source merged twice, the first merge having added something
C8_WitnessAgain ==
    /\ lastMerge = "again"
    /\ other["year_models"] # << >>
    /\ self["year_models"] = other["year_models"]

\* C9: first-seen wins: an entity of source whose key target already holds is
\* discarded (target holds as many entries with that key as before), and every
\* entry target held keeps all its attributes.
C9_FirstSeenWins ==
    lastMerge \in {"other", "again"}
        => \A k \in Kinds :
              /\ \A i \in 1..Len(before[k]) :
                    i <= Len(self[k]) /\ self[k][i] = before[k][i]
              /\ \A j \in 1..Len(other[k]) :
                    LET key == IdentityKey(k, other[k][j])
                    IN  key \in KeysOf(k, before[k])
                            => CountKey(k, self[k], key) = CountKey(k, before[k], key)

\* the source carried the brand with its initial_period resolved; the target
\* keeps its own, unresolved one
C9_Witness ==
    /\ lastMerge = "other"
    /\ before["brands"] = <<B1>>
    /\ other["brands"] = <<B1x>>
    /\ self["brands"] = <<B1>>
    /\ self["brands"][1].initial_period = None
    /\ other["brands"][1].initial_period # None

\* two versions of one model: all attributes equal but fipe_code, which is
\* empty in a and filled in b
EmptyAndFilled(a, b) ==
    /\ a.name = b.name /\ a.code = b.code /\ a.brand = b.brand
    /\ a.vehicle_type = b.vehicle_type
    /\ a.fipe_code = "" /\ b.fipe_code # ""

TwoVersionsMerged ==
    /\ lastMerge = "other"
    /\ Len(before["models"]) = 1 /\ Len(other["models"]) = 1
    /\ \/ EmptyAndFilled(before["models"][1], other["models"][1])
       \/ EmptyAndFilled(other["models"][1], before["models"][1])

\* C10 as stated: merging A (model M with empty fipeCode) then B (M with a
\* non-empty fipeCode) leaves exactly one model, the one merged first, in
\* either order.
C10_OneModelEitherOrder ==
    TwoVersionsMerged => self["models"] = before["models"]

\* C10 as amended: the two versions differ in fipe_code, which is part of the
\* identity key, so both are kept, the one merged first in front; the count is
\* the same (two) in both orders.
C10_BothVersionsKept ==
    TwoVersionsMerged
        => /\ self["models"] = before["models"] \o other["models"]
           /\ Len(self["models"]) = 2
           /\ Len(Merge(other, before, FALSE)["models"]) = Len(self["models"])

C10_Witness ==
    /\ lastMerge = "other"
    /\ before["models"] = <<M0>>
    /\ other["models"] = <<M1>>
    /\ self["models"] = <<M0, M1>>

\* C11: merging A then B into an empty result and merging B then A give the
\* same set of identity keys for every entity kind (the retained entries
\* themselves may differ).
C11_OrderKeepsMembership ==
    lastMerge = "orders"
        => \A k \in Kinds : KeysOf(k, orders.ab[k]) = KeysOf(k, orders.ba[k])

\* the two orders kept different versions of the brand with one key, and both
\* hold the second brand
C11_Witness ==
    /\ lastMerge = "orders"
    /\ self["brands"] = <<B1, B2>>
    /\ other["brands"] = <<B1x>>
    /\ orders.ab["brands"] = <<B1, B2>>
    /\ orders.ba["brands"] = <<B1x, B2>>

-----------------------------------------------------------------------------
(* Properties of the consolidation *)

\* the files in the order of their names, and in the order they were read
FilesByName == partial_dir
FilesAsRead == [i \in 1..Len(listing) |-> partial_dir[listing[i]]]

\* the entries of one kind a file holds at its top level
FileEntries(file, kind) == IF file.valid THEN Get(file.data, kind, << >>) ELSE << >>

\* the files that hold an entry with the key
Holders(files, kind, key) ==
    {i \in 1..Len(files) : key \in KeysOf(kind, FileEntries(files[i], kind))}

\* the first entry with the key in the first of the files that holds the key
FirstWithKey(files, kind, key) ==
    LET holders == Holders(files, kind, key)
        f == CHOOSE i \in holders : \A j \in holders : i <= j
        entries == FileEntries(files[f], kind)
        at == {i \in 1..Len(entries) : IdentityKey(kind, entries[i]) = key}
    IN  entries[CHOOSE i \in at : \A j \in at : i <= j]

AllFileKeys(files, kind) ==
    UNION {KeysOf(kind, FileEntries(files[i], kind)) : i \in 1..Len(files)}

\* C14: the files are processed in the order of their names: when one identity
\* key occurs in several partial files, the entry the final artifact retains
\* for it is the one of the file whose name sorts first.
C14_FirstNamedFileWins ==
    final_file.written
        => \A k \in Kinds : \A key \in AllFileKeys(FilesByName, k) :
              Cardinality(Holders(FilesByName, k, key)) > 1
                  => {e \in Elems(final_file.data[k]) : IdentityKey(k, e) = key}
                         = {FirstWithKey(FilesByName, k, key)}

\* the file read first was the one whose name sorts last, and its brand was kept
C14_LaterFileWon ==
    /\ final_file.written
    /\ listing = <<2, 1>>
    /\ FileEntries(partial_dir[1], "brands") = <<BrandToDict(B1)>>
    /\ FileEntries(partial_dir[2], "brands") = <<BrandToDict(B1x)>>
    /\ final_file.data["brands"] = <<BrandToDict(B1x)>>

\* fold of ExtractionResult.merge over the results the files serialize
RECURSIVE MergeFold(_, _, _)
MergeFold(acc, files, i) ==
    IF i > Len(files) THEN acc
    ELSE IF ~files[i].valid THEN MergeFold(acc, files, i + 1)
    ELSE MergeFold(Merge(acc, DictToResult(files[i].data), FALSE), files, i + 1)

\* C15: consolidating serialized results gives, for every entity kind, the
\* identity keys and the retained entries that folding merge over the same
\* results in the same order gives.
C15_ConsolidationIsMergeFold ==
    final_file.written
        => LET folded == MergeFold(EmptyResult, FilesAsRead, 1)
           IN  \A k \in Kinds :
                  /\ KeysOf(k, final_file.data[k]) = KeysOf(k, folded[k])
                  /\ Elems(final_file.data[k]) = Elems(ToDict(folded)[k])

\* the entries of seq, with their multiplicities
Occurrences(seq, e) == Cardinality({i \in 1..Len(seq) : seq[i] = e})
IsPermutation(p, q) ==
    /\ Len(p) = Len(q)
    /\ \A e \in Elems(p) \cup Elems(q) : Occurrences(p, e) = Occurrences(q, e)

\* the lists before the three sorts: the deduplicated entries in reading order
Deduplicated(kind) ==
    ConsolidateFiles([k \in Kinds |-> [list |-> << >>, seen |-> {}]], FilesAsRead, 1)[kind].list

\* C16: in the artifact consolidate_partials writes, periods are in descending
\* order of the raw period string, brands in ascending order of
\* (vehicleType, name), models in ascending order of (vehicleType, brand name,
\* name), and every array is a permutation of the deduplicated entries.
C16_SortedArtifact ==
    final_file.written
        => LET period_list == final_file.data["reference_periods"]
               brands == final_file.data["brands"]
               models == final_file.data["models"]
           IN  /\ \A i, j \in 1..Len(period_list) :
                      i < j => ~StrLess(period_list[i].period, period_list[j].period)
               /\ \A i, j \in 1..Len(brands) :
                      i < j => ~TupleLess(<<brands[j].vehicle_type, brands[j].name>>,
                                          <<brands[i].vehicle_type, brands[i].name>>)
               /\ \A i, j \in 1..Len(models) :
                      i < j => ~TupleLess(
                          <<models[j].vehicle_type, models[j].brand.name, models[j].name>>,
                          <<models[i].vehicle_type, models[i].brand.name, models[i].name>>)
               /\ \A k \in Kinds : IsPermutation(final_file.data[k], Deduplicated(k))

\* a file listed 01/2024 before 12/2023, and the artifact holds them the
\* other way round
C16_Witness ==
    /\ final_file.written
    /\ Deduplicated("reference_periods")
           = <<ReferencePeriodToDict(P1), ReferencePeriodToDict(P0)>>
    /\ final_file.data["reference_periods"]
           = <<ReferencePeriodToDict(P0), ReferencePeriodToDict(P1)>>

\* two brands were put in the order of their vehicle types
C16_WitnessBrands ==
    /\ final_file.written
    /\ Deduplicated("brands") = <<BrandToDict(B2), BrandToDict(B3)>>
    /\ final_file.data["brands"] = <<BrandToDict(B3), BrandToDict(B2)>>

-----------------------------------------------------------------------------
(* Properties of the parallel run *)

\* the serialized result the i-th partial snapshot persists
SnapshotData(i) == partial_dir[i].data.data

\* the batch (0, 1, 2, ...) of the task at position t of the task list
BatchNumber(t) == (t - 1) \div (2 * max_workers)

KeysWithin(kind, entries, all) == KeysOf(kind, entries) \subseteq KeysOf(kind, all)

FragmentKinds == {"brands", "models", "year_models", "fipe_values"}

\* C12: when two partial snapshots in the format the parallel run persists
\* each hold a FipeValue with one (authentication, referencePeriod) key, the
\* consolidated fipe_values hold exactly one entry with that key.
C12_OneValuePerKey ==
    final_file.written
        => \A i, j \in 1..Len(partial_dir) :
              i # j =>
                  \A key \in KeysOf("fipe_values", SnapshotData(i)["fipe_values"])
                               \cap KeysOf("fipe_values", SnapshotData(j)["fipe_values"]) :
                      CountKey("fipe_values", final_file.data["fipe_values"], key) = 1

\* C13: after a parallel run has written its snapshots, the artifact of
\* consolidate_partials holds, for every entity kind, every identity key
\* recorded in the data of the latest snapshot.
C13_NoProgressLost ==
    final_file.written
        => \A k \in Kinds :
              KeysWithin(k, SnapshotData(Len(partial_dir))[k], final_file.data[k])

\* C17: the snapshot written after batch i holds the selected periods and
\* what every task of batches 0..i returned, every entity of a snapshot is in
\* every later snapshot, and the data of the last snapshot is the result
\* run() returned.
C17_CumulativeSnapshots ==
    /\ \A f \in 1..Len(partial_dir) :
          /\ SnapshotData(f)["reference_periods"]
                 = [i \in 1..Len(periods) |-> ReferencePeriodToDict(periods[i])]
          /\ \A t \in DOMAIN task_state : \A k \in FragmentKinds :
                 (BatchNumber(t) < f /\ task_state[t] \in {"returned", "caught"})
                     => KeysWithin(k, fragment[t][k], SnapshotData(f)[k])
          /\ \A k \in FragmentKinds : \A e \in Elems(SnapshotData(f)[k]) :
                 \E t \in DOMAIN task_state :
                     BatchNumber(t) < f /\ e \in Elems(fragment[t][k])
    /\ \A f, g \in 1..Len(partial_dir) : \A k \in Kinds :
          f < g => Elems(SnapshotData(f)[k]) \subseteq Elems(SnapshotData(g)[k])
    /\ (run_pc = "returned" /\ partial_dir # << >>)
          => SnapshotData(Len(partial_dir)) = ToDict(returned)

\* two snapshots, the second holding more values than the first, and the run
\* returned
C17_Witness ==
    /\ run_pc = "returned"
    /\ Len(partial_dir) = 2
    /\ Len(SnapshotData(1)["fipe_values"]) = 1
    /\ Len(SnapshotData(2)["fipe_values"]) = 3
    /\ Len(returned["fipe_values"]) = 3

\* C18: no task of a batch is dispatched before every task of the batches
\* before it has finished, their fragments have been merged and their partial
\* files have been written; no task runs while a partial file is written.
C18_BatchesSequential ==
    /\ \A t, u \in DOMAIN task_state :
          (task_state[t] # "pending" /\ BatchNumber(u) < BatchNumber(t))
              => /\ Finished(u)
                 /\ task_state[u] \in {"returned", "caught"}
                       => \A k \in FragmentKinds :
                              KeysWithin(k, fragment[u][k], final_result[k])
                 /\ Len(partial_dir) > BatchNumber(u)
    /\ run_pc = "merged" => \A t \in DOMAIN task_state : task_state[t] # "running"

\* a task of the second batch is running; the first batch returned a value
\* that is merged and saved
C18_Witness ==
    /\ run_pc = "batch"
    /\ Len(tasks) = 4
    /\ task_state[3] = "running"
    /\ task_state[4] = "returned"
    /\ Len(partial_dir) = 1
    /\ SnapshotData(1)["fipe_values"] # << >>

\* C19: a task whose execution raised an error contributes nothing: no brand,
\* model, year-model or value it had collected is in the cumulative result
\* unless a task that did not fail returned it as well.
C19_FailedTaskContributesNothing ==
    \A t \in DOMAIN task_state :
        task_state[t] \in {"caught", "escaped"}
            => \A k \in FragmentKinds : \A key \in KeysOf(k, fragment[t][k]) :
                  key \in KeysOf(k, final_result[k])
                      => \E u \in DOMAIN task_state :
                             /\ u # t
                             /\ task_state[u] = "returned"
                             /\ key \in KeysOf(k, fragment[u][k])

\* the number of batches of the task list
BatchCount == (Len(tasks) + 2 * max_workers - 1) \div (2 * max_workers)

\* C20: a failed task stops nothing: once a batch is merged every task of it
\* that returned has its fragment in the cumulative result whatever the other
\* tasks did, and when run() has returned every task was executed, every
\* batch has its partial file and the cumulative result was returned.
C20_FailureIsolated ==
    /\ \A u \in DOMAIN task_state :
          (task_state[u] = "returned"
              /\ (Len(partial_dir) > BatchNumber(u) \/ run_pc \in {"merged", "returned"}))
             => \A k \in FragmentKinds : KeysWithin(k, fragment[u][k], final_result[k])
    /\ (run_pc = "returned" /\ periods # << >>)
          => /\ \A t \in DOMAIN task_state : Finished(t)
             /\ Len(partial_dir) = BatchCount
             /\ returned = final_result

\* the run returned; in the first batch one task failed and the other one's
\* values were merged, and the second batch ran and was saved
C20_Witness ==
    /\ run_pc = "returned"
    /\ Len(tasks) = 4
    /\ task_state[1] = "escaped"
    /\ task_state[2] = "returned"
    /\ Len(fragment[2]["fipe_values"]) = 2
    /\ task_state[3] = "returned"
    /\ Len(partial_dir) = 2
    /\ Len(returned["fipe_values"]) >= 3

-----------------------------------------------------------------------------
(* Properties of the lookups of a run *)

LastLookup == lookups[Len(lookups)]

\* the task list is complete: every selected vehicle type was looked up
Planned == step \notin {"new", "brands"} /\ periods # << >>

\* the (period, brand, vehicleType) triple of the task at position t
TaskTriple(t) == <<tasks[t].period.period, tasks[t].brand.name, tasks[t].vehicle_type>>

\* the brands the brand lookup gave for a vehicle type
BrandUniverse(vehicle_type_code) ==
    {b \in Elems(brand_list) : b.vehicle_type = VehicleTypeToString(vehicle_type_code)}

\* C21: for each selected vehicle type the task list holds exactly one task
\* for every pair of a brand of that type's brand universe and a selected
\* period, and no other task; no (period, brand, vehicleType) triple occurs
\* twice.
C21_TasksAreCrossProduct ==
    Planned
        => /\ \A vehicle_type_code \in Elems(vehicle_type_codes) :
                 \A b \in BrandUniverse(vehicle_type_code) : \A i \in 1..Len(periods) :
                     Cardinality({t \in 1..Len(tasks) :
                         TaskTriple(t) = <<periods[i].period, b.name, vehicle_type_code>>}) = 1
           /\ \A t \in 1..Len(tasks) :
                 \E vehicle_type_code \in Elems(vehicle_type_codes) :
                     \E b \in BrandUniverse(vehicle_type_code) : \E i \in 1..Len(periods) :
                         TaskTriple(t) = <<periods[i].period, b.name, vehicle_type_code>>
           /\ \A t, u \in 1..Len(tasks) : TaskTriple(t) = TaskTriple(u) => t = u

\* C22: a successful value lookup sets the year-model's authentication from
\* the response and the model's fipeCode only if it was empty; a fipeCode
\* that is not empty is never changed again.
C22_BackfillOnlyWhenEmpty ==
    [][/\ \A i \in DOMAIN model_objs :
             (i \in DOMAIN model_objs' /\ model_objs[i].fipe_code # "")
                 => model_objs'[i].fipe_code = model_objs[i].fipe_code
       /\ (step = "value" /\ Len(lookups') = Len(lookups) + 1
               /\ lookups'[Len(lookups')].ok)
             => LET response == CHOOSE r \in lookups'[Len(lookups')].items : TRUE
                IN  /\ year_objs'[year_idx].authentication = response.Autenticacao
                    /\ model_objs'[model_idx].fipe_code =
                           IF model_objs[model_idx].fipe_code = ""
                           THEN response.CodigoFipe
                           ELSE model_objs[model_idx].fipe_code]_vars

\* the first model has a fipeCode, and the last value lookup, for its second
\* year-model, named another one
C22_Witness ==
    /\ Len(lookups) >= 1
    /\ LastLookup.level = "value"
    /\ LastLookup.ok
    /\ LastLookup.args[5] = "2023-1"
    /\ \E r \in LastLookup.items : r.CodigoFipe = "001005-7"
    /\ Len(model_objs) >= 1
    /\ model_objs[1].fipe_code = "001004-9"
    /\ year_objs[2].authentication = "xyz789"
    /\ year_objs[2].model = 1

\* the lookups of a level made for the task of the worker
LookupsOf(level) == {i \in 1..Len(lookups) : lookups[i].level = level}

\* C23: a year-model lookup or a value lookup that fails yields no value and
\* leaves the year-models and the models as they were, and the worker goes on
\* with the next year-model or model; a worker that was not interrupted has
\* looked up the year-models of every model and the value of every year-model.
C23_BadLookupSkipsOneUnit ==
    /\ [][(/\ Len(lookups') = Len(lookups) + 1
           /\ ~lookups'[Len(lookups')].ok
           /\ lookups'[Len(lookups')].level \in {"year_models", "value"})
             => /\ worker_result'.fipe_values = worker_result.fipe_values
                /\ worker_result'.year_models = worker_result.year_models
                /\ year_objs' = year_objs
                /\ model_objs' = model_objs
                /\ ~worker_error'
                /\ (step = "value" /\ year_idx < Len(year_objs))
                      => step' = "value" /\ year_idx' = year_idx + 1
                /\ ((step = "years" \/ year_idx = Len(year_objs))
                       /\ model_idx < Len(model_objs))
                      => step' = "years" /\ model_idx' = model_idx + 1]_vars
    /\ [](step = "done" /\ ~worker_error
            => /\ \A m \in 1..Len(model_objs) :
                     \E i \in LookupsOf("year_models") :
                         lookups[i].args[4] = model_objs[m].code
               /\ \A y \in 1..Len(year_objs) :
                     \E i \in LookupsOf("value") :
                         /\ lookups[i].args[4] = model_objs[year_objs[y].model].code
                         /\ lookups[i].args[5] = year_objs[y].year_code)

\* the year-model lookup of the first model failed, the first value lookup
\* of the second model failed, and its second value lookup gave a value the
\* worker returned
C23_Witness ==
    /\ step = "done"
    /\ ~worker_error
    /\ \E i, j, k \in 1..Len(lookups) :
          /\ i < j /\ j < k
          /\ lookups[i].level = "year_models" /\ ~lookups[i].ok
          /\ lookups[j].level = "value" /\ ~lookups[j].ok
          /\ lookups[k].level = "value" /\ lookups[k].ok
    /\ Len(worker_dict["fipe_values"]) = 1
    /\ Len(worker_dict["models"]) = 1

\* C24: when the initial period-list lookup fails, run() ends with an error
\* instead of returning a result.
C24_PeriodLookupFailureIsFatal ==
    (Len(lookups) >= 1 /\ lookups[1].level = "periods" /\ ~lookups[1].ok)
        => step # "returned"

\* a lookup before position i, of the level, that returned and gave code
ReturnedBefore(i, level, args, code) ==
    \E j \in 1..(i - 1) :
        /\ lookups[j].level = level
        /\ lookups[j].ok
        /\ lookups[j].args = args
        /\ code \in lookups[j].items

\* C25: a value lookup is issued only after the year-model lookup that
\* returned its year-model, that one only after the model lookup that
\* returned its model, that one only after a brand lookup returned its brand
\* and the period lookup its period, and a brand lookup only after the period
\* lookup returned its period.
C25_TopDown ==
    \A i \in 1..Len(lookups) :
        LET a == lookups[i].args
        IN  CASE lookups[i].level = "periods" -> i = 1
              [] lookups[i].level = "brands" ->
                     ReturnedBefore(i, "periods", << >>, a[1])
              [] lookups[i].level = "models" ->
                     /\ ReturnedBefore(i, "periods", << >>, a[1])
                     /\ \E j \in 1..(i - 1) :
                            /\ lookups[j].level = "brands"
                            /\ lookups[j].ok
                            /\ lookups[j].args[2] = a[2]
                            /\ a[3] \in lookups[j].items
              [] lookups[i].level = "year_models" ->
                     ReturnedBefore(i, "models", <<a[1], a[2], a[3]>>, a[4])
              [] lookups[i].level = "value" ->
                     ReturnedBefore(i, "year_models", <<a[1], a[2], a[3], a[4]>>, a[5])

\* all five levels were looked up, the last one for the second year-model of
\* the second model
C25_Witness ==
    /\ Len(lookups) >= 5
    /\ LastLookup.level = "value"
    /\ LastLookup.args[4] = 456
    /\ LastLookup.args[5] = "2023-1"
    /\ Cardinality(LookupsOf("year_models")) = 2

-----------------------------------------------------------------------------
(* Properties of a run in either mode *)

RunEnded == run_pc \in {"returned", "saved"} /\ periods # << >>

\* C26: the final artifact FipeScraper.run leaves holds the periods in
\* descending order of the period string, the brands in ascending order of
\* (vehicleType, name) and the models in ascending order of (vehicleType,
\* brand name, name).
C26_FinalArtifactSorted ==
    run_pc = "saved"
        => /\ \A i, j \in 1..Len(final_file.data["reference_periods"]) :
                 i < j => ~StrLess(final_file.data["reference_periods"][i].period,
                                   final_file.data["reference_periods"][j].period)
           /\ \A i, j \in 1..Len(final_file.data["brands"]) :
                 i < j => ~TupleLess(SortKey("brands", final_file.data["brands"][j]),
                                     SortKey("brands", final_file.data["brands"][i]))
           /\ \A i, j \in 1..Len(final_file.data["models"]) :
                 i < j => ~TupleLess(SortKey("models", final_file.data["models"][j]),
                                     SortKey("models", final_file.data["models"][i]))

\* the tasks of batch b (0, 1, 2, ...): 2 * MAX_WORKERS consecutive positions
BatchMembers(b) ==
    {t \in 1..Len(tasks) : b * 2 * max_workers < t /\ t <= (b + 1) * 2 * max_workers}

\* C27: the task list is cut into consecutive batches of exactly
\* 2 * MAX_WORKERS tasks, the last one possibly smaller; every task is handed
\* to a worker in its batch and in no other, and the files written are
\* batch_0, batch_1, ... in batch order, one per finished batch.
C27_BatchPartition ==
    /\ \A b \in 0..(BatchCount - 1) :
          /\ BatchTasks(b * BatchSize) = BatchMembers(b)
          /\ b < BatchCount - 1 => Cardinality(BatchMembers(b)) = 2 * max_workers
          /\ Cardinality(BatchMembers(b)) \in 1..(2 * max_workers)
    /\ \A t \in 1..Len(tasks) :
          Cardinality({b \in 0..(BatchCount - 1) : t \in BatchMembers(b)}) = 1
    /\ \A t \in DOMAIN submissions : \A i \in 1..Len(submissions[t]) :
          t \in BatchTasks(submissions[t][i])
    /\ Len(partial_dir) = batch_idx \div (2 * max_workers)
    /\ \A f \in 1..Len(partial_dir) :
          /\ partial_dir[f].data.batch = (f - 1) * 2 * max_workers
          /\ \A t \in BatchMembers(f - 1) : Finished(t)
    /\ RunEnded => Len(partial_dir) = BatchCount

\* three tasks with MAX_WORKERS = 1: the run ended with two files, the second
\* one for the batch of the third task alone
C27_Witness ==
    /\ RunEnded
    /\ Len(tasks) = 3
    /\ BatchCount = 2
    /\ Len(partial_dir) = 2
    /\ BatchMembers(1) = {3}
    /\ submissions[3] = <<2>>

\* the identity keys of a result, per kind
KeySets(r) == [k \in Kinds |-> KeysOf(k, r[k])]

\* the keys the cumulative result and the collected dicts hold together, in
\* whatever order the dicts were collected
KeysCollected(acc, batch_results) ==
    [k \in Kinds |->
        KeysOf(k, acc[k])
            \cup UNION {KeysOf(k, DictToResult(batch_results[i])[k]) :
                          i \in 1..Len(batch_results)}]

Reversed(list) == [i \in 1..Len(list) |-> list[Len(list) + 1 - i]]

BatchCollected == run_pc = "batch" /\ \A t \in DOMAIN task_state : task_state[t] # "running"

\* C28: in whatever order the tasks of a batch completed, the cumulative
\* result after the batch has the same identity keys of every kind: the keys
\* it had and the keys of the dicts collected, as it has for the opposite
\* order of completion.
C28_CompletionOrderKeepsMembership ==
    BatchCollected
        => /\ KeySets(MergeResults(final_result, results, 1))
                  = KeysCollected(final_result, results)
           /\ KeySets(MergeResults(final_result, Reversed(results), 1))
                  = KeySets(MergeResults(final_result, results, 1))

\* the two tasks of a batch completed in the opposite order of their
\* submission, both with values; merged in the order of submission they give
\* a result that differs, with the same keys
C28_Witness ==
    /\ BatchCollected
    /\ Len(tasks) = 2
    /\ results = <<fragment[2], fragment[1]>>
    /\ fragment[1]["fipe_values"] # << >>
    /\ fragment[2]["fipe_values"] # << >>
    /\ fragment[1] # fragment[2]
    /\ MergeResults(final_result, <<fragment[1], fragment[2]>>, 1)
           # MergeResults(final_result, results, 1)

\* C29: every task is handed to a worker exactly once per run, in both
\* modes: a task that failed is not handed out again, and when the run has
\* ended no task was left out.
C29_EveryTaskOnce ==
    /\ \A t \in DOMAIN task_state :
          Len(submissions[t]) = IF task_state[t] = "pending" THEN 0 ELSE 1
    /\ RunEnded => \A t \in DOMAIN task_state : Finished(t) /\ Len(submissions[t]) = 1

\* a sequential run of four tasks ended; the worker of the first task had
\* caught an exception
C29_Witness ==
    /\ RunEnded
    /\ ~use_multiprocessing
    /\ Len(tasks) = 4
    /\ task_state[1] = "caught"
    /\ task_state[4] = "returned"
    /\ submissions[4] = <<3>>

\* a parallel run of four tasks ended; a task of the first batch had failed
C29_WitnessParallel ==
    /\ RunEnded
    /\ use_multiprocessing
    /\ Len(tasks) = 4
    /\ task_state[2] = "escaped"
    /\ submissions[2] = <<0>>

RECURSIVE SequentialFold(_, _)
\* what the sequential loop gives for the fragments of the tasks, from task t on
SequentialFold(acc, t) ==
    IF t > Len(tasks) THEN acc
    ELSE SequentialFold(Merge(acc, DictToResult(fragment[t]), FALSE), t + 1)

SequentialResult ==
    SequentialFold([EmptyResult EXCEPT !["reference_periods"] = periods], 1)

\* C30: with the same task list and the same fragment of every task, run()
\* returns a result with the same identity keys of every kind in both modes;
\* the sequential mode writes no partial file.
C30_ModesAgreeOnMembership ==
    /\ (RunEnded /\ \A t \in DOMAIN task_state : task_state[t] # "escaped")
          => KeySets(returned) = KeySets(SequentialResult)
    /\ (RunEnded /\ ~use_multiprocessing) => returned = SequentialResult
    /\ ~use_multiprocessing => partial_dir = << >>

\* a parallel run ended whose result differs from the one of the sequential
\* loop over the same fragments, with the same keys
C30_Witness ==
    /\ RunEnded
    /\ use_multiprocessing
    /\ \A t \in DOMAIN task_state : task_state[t] # "escaped"
    /\ Len(returned["fipe_values"]) >= 2
    /\ returned # SequentialResult

\* a sequential run ended with values and without partial files
C30_WitnessSequential ==
    /\ RunEnded
    /\ ~use_multiprocessing
    /\ Len(returned["fipe_values"]) >= 2
    /\ partial_dir = << >>

-----------------------------------------------------------------------------
(* Properties of the clients of a sequential run *)

\* C31: in sequential mode the gap between any two consecutive lookups of the
\* task phase, the last lookup of one task and the first lookup of the next
\* included, is at least DELAY_BETWEEN_REQUESTS.
C31_SequentialPacing ==
    task_dispatches >= 2 => run_gap >= cfg.DELAY_BETWEEN_REQUESTS

-----------------------------------------------------------------------------
(* Further properties of the lookups of a run *)

\* the positions of the selected periods no other selected period is later
\* than, by (year, month)
MostRecent(period_list) ==
    {i \in 1..Len(period_list) :
        \A j \in 1..Len(period_list) :
            TupleLeq(ParsePeriod(period_list[j].period), ParsePeriod(period_list[i].period))}

\* the brand lookups made for a vehicle type: positions in lookups
BrandLookups(vehicle_type_code) ==
    {i \in 1..Len(lookups) :
        lookups[i].level = "brands" /\ lookups[i].args[2] = vehicle_type_code}

\* C32: the brand universe of each vehicle type is fetched exactly once per
\* run, from the selected period with the greatest (year, month).
C32_BrandsOnceFromMostRecent ==
    Planned
        => \A vehicle_type_code \in Elems(vehicle_type_codes) :
               /\ Cardinality(BrandLookups(vehicle_type_code)) = 1
               /\ \A i \in BrandLookups(vehicle_type_code) :
                      \E p \in MostRecent(periods) : lookups[i].args[1] = periods[p].code

-----------------------------------------------------------------------------
(* Properties of brand discovery *)

\* the discovery lookups that returned a name for a vehicle type
Sightings(name, vehicle_type_code) ==
    {i \in 1..Len(lookups) :
        /\ lookups[i].level = "discovery" /\ lookups[i].ok
        /\ lookups[i].args[2] = vehicle_type_code /\ name \in lookups[i].items}

\* C33: BrandScraper.extract walks the given periods from oldest to newest
\* and returns each (name, vehicleType) brand exactly once, with initialPeriod
\* the chronologically earliest given period in which a brand lookup returned
\* that name for that vehicle type.
C33_DiscoveryFindsEarliestPeriod ==
    /\ \A i, j \in 1..Len(lookups) :
           (i < j /\ lookups[i].level = "discovery" /\ lookups[j].level = "discovery")
               => TupleLeq(ParsePeriod(lookups[i].args[1]), ParsePeriod(lookups[j].args[1]))
    /\ step = "discovered"
           => /\ \A i, j \in 1..Len(brand_list) :
                     BrandEq(brand_list[i], brand_list[j]) => i = j
              /\ \A b \in Elems(brand_list) :
                     LET seen == Sightings(b.name, VehicleTypeCode(b.vehicle_type))
                     IN  /\ seen # {}
                         /\ \E i \in seen :
                                /\ lookups[i].args[1] = b.initial_period
                                /\ \A j \in seen :
                                       TupleLeq(ParsePeriod(lookups[i].args[1]),
                                                ParsePeriod(lookups[j].args[1]))
              /\ \A i \in 1..Len(lookups) : \A name \in lookups[i].items :
                     \E b \in Elems(brand_list) :
                         /\ b.name = name
                         /\ VehicleTypeCode(b.vehicle_type) = lookups[i].args[2]

-----------------------------------------------------------------------------
(* Properties of the serialized form *)

\* r rebuilt from its serialized form
RoundTrip(r) == DictToResult(ToDict(r))

\* C34: rebuilding an ExtractionResult from its serialized form (to_dict,
\* then _dict_to_result) keeps, for every kind, the number of entries, their
\* order and their identity keys, and every rebuilt model, year-model and
\* value refers to an owner with the identity key of the original owner.
C34_RoundTripKeepsKeys ==
    LET rebuilt == RoundTrip(self)
    IN  /\ \A k \in Kinds :
               /\ Len(rebuilt[k]) = Len(self[k])
               /\ \A i \in 1..Len(self[k]) : EntityEq(k, rebuilt[k][i], self[k][i])
        /\ \A i \in 1..Len(self["models"]) :
               BrandEq(rebuilt["models"][i].brand, self["models"][i].brand)
        /\ \A i \in 1..Len(self["year_models"]) :
               ModelEq(rebuilt["year_models"][i].model, self["year_models"][i].model)
        /\ \A i \in 1..Len(self["fipe_values"]) :
               YearModelEq(rebuilt["fipe_values"][i].year_model,
                           self["fipe_values"][i].year_model)

\* a result was rebuilt whose value got its owner from the year-models of the
\* result: a year-model with the owner's key that is not the owner itself
C34_Witness ==
    LET rebuilt == RoundTrip(self)
    IN  /\ self["year_models"] # << >>
        /\ \E i \in 1..Len(self["fipe_values"]) :
               rebuilt["fipe_values"][i].year_model # self["fipe_values"][i].year_model

-----------------------------------------------------------------------------
(* Properties of the entities a result holds *)

\* no two entries of one kind have the same identity key
NoDuplicates(r) ==
    \A k \in Kinds : \A i, j \in 1..Len(r[k]) : EntityEq(k, r[k][i], r[k][j]) => i = j

\* C35: a target without two entities of one kind with equal identity key
\* has none after merge(target, source) either, also when the source itself
\* holds duplicates; a fresh result has none after merges into it.
C35_MergeKeepsNoDuplicates ==
    /\ (lastMerge \in {"other", "again", "self"} /\ NoDuplicates(before))
           => NoDuplicates(self)
    /\ lastMerge = "orders" => NoDuplicates(orders.ab) /\ NoDuplicates(orders.ba)

\* a source that holds duplicates was merged into a target without, and
\* something of it was added
C35_Witness ==
    /\ lastMerge = "other"
    /\ NoDuplicates(before)
    /\ ~NoDuplicates(other)
    /\ self # before

\* C35, the consequence for a run: neither the cumulative result nor what
\* run() returns holds two entities of one kind with the same identity key
C35_RunResultHasNoDuplicates ==
    NoDuplicates(final_result) /\ NoDuplicates(returned)

\* C36: every year-model of the result run() returned has its owning model
\* (same (fipeCode, vehicleType)) among the result's models, and every model
\* has its owning brand (same (name, vehicleType)) among the result's brands.
C36_ReferentialIntegrity ==
    run_pc \in {"returned", "saved"}
        => /\ \A i \in 1..Len(returned["year_models"]) :
                  \E j \in 1..Len(returned["models"]) :
                      ModelEq(returned["models"][j], returned["year_models"][i].model)
           /\ \A i \in 1..Len(returned["models"]) :
                  \E j \in 1..Len(returned["brands"]) :
                      BrandEq(returned["brands"][j], returned["models"][i].brand)

\* the same of the fragment one worker returned
C36_FragmentIntegrity ==
    step = "done"
        => \A i \in 1..Len(worker_dict["year_models"]) :
               \E j \in 1..Len(worker_dict["models"]) :
                   /\ worker_dict["models"][j].fipe_code
                          = worker_dict["year_models"][i].model.fipe_code
                   /\ worker_dict["models"][j].vehicle_type
                          = worker_dict["year_models"][i].model.vehicle_type

-----------------------------------------------------------------------------
(* Properties of a worker's fragment *)

\* the value lookups of the worker so far that were made for a model
ValueLookupsOf(model_code) ==
    {i \in 1..Len(lookups) : lookups[i].level = "value" /\ lookups[i].args[4] = model_code}

\* C37: every model in a worker's fragment has a non-empty fipeCode, which a
\* value lookup for that model returned; a model for which no value lookup
\* returned a catalog code is not recorded.
C37_RecordedModelsHaveCode ==
    /\ \A i \in 1..Len(worker_result.models) :
           LET model == model_objs[worker_result.models[i]]
           IN  /\ model.fipe_code # ""
               /\ \E l \in ValueLookupsOf(model.code) :
                      /\ lookups[l].ok
                      /\ \E response \in lookups[l].items :
                             response.CodigoFipe = model.fipe_code
    /\ step = "done"
           => /\ Len(worker_dict["models"]) = Len(worker_result.models)
              /\ \A i \in 1..Len(worker_dict["models"]) :
                     worker_dict["models"][i].fipe_code # ""

\* a worker returned after two models: one recorded, the other not although
\* its value lookup was answered (without a catalog code)
C37_Witness ==
    /\ step = "done"
    /\ ~worker_error
    /\ Len(model_objs) = 2
    /\ Len(worker_dict["models"]) = 1
    /\ Len(worker_dict["year_models"]) >= 2
    /\ \E m \in 1..2 : model_objs[m].fipe_code = ""

\* C37, the consequence for a run: every model of the cumulative result and of
\* the result run() returns has a non-empty fipeCode
C37_RunModelsHaveCode ==
    /\ \A i \in 1..Len(final_result["models"]) : final_result["models"][i].fipe_code # ""
    /\ \A i \in 1..Len(returned["models"]) : returned["models"][i].fipe_code # ""

\* the value lookups of the worker in the order they were made: the k-th is
\* the lookup for the k-th year-model the worker got
ValueLookups == SelectSeq(lookups, LAMBDA l : l.level = "value")

\* C38: in a worker's fragment year-models and values are recorded in pairs:
\* a year-model is recorded if and only if its value lookup succeeded, the
\* two lists have equal length, and the i-th value's authentication is the
\* i-th year-model's; a year-model whose value lookup failed is absent.
C38_YearModelsAndValuesInPairs ==
    /\ Len(worker_result.year_models) = Len(worker_result.fipe_values)
    /\ \A i \in 1..Len(worker_result.year_models) :
           worker_result.fipe_values[i].year_model = worker_result.year_models[i]
    /\ \A y \in 1..Len(year_objs) :
           (\E i \in 1..Len(worker_result.year_models) : worker_result.year_models[i] = y)
               <=> (y <= Len(ValueLookups) /\ ValueLookups[y].ok)
    /\ step = "done"
           => /\ Len(worker_dict["year_models"]) = Len(worker_dict["fipe_values"])
              /\ Len(worker_dict["year_models"]) = Len(worker_result.year_models)
              /\ \A i \in 1..Len(worker_dict["year_models"]) :
                     worker_dict["fipe_values"][i].year_model.authentication
                         = worker_dict["year_models"][i].authentication

\* a worker returned two pairs although one value lookup between them failed
C38_Witness ==
    /\ step = "done"
    /\ Len(worker_dict["year_models"]) = 2
    /\ Len(worker_dict["fipe_values"]) = 2
    /\ Len(ValueLookups) >= 3
    /\ \E y \in 1..Len(ValueLookups) : ~ValueLookups[y].ok

-----------------------------------------------------------------------------
(* Properties of the planning of a run *)

\* the tasks of a vehicle type: positions in tasks
TasksOfType(vehicle_type_code) ==
    {t \in 1..Len(tasks) : tasks[t].vehicle_type = vehicle_type_code}

\* C39: if the brand lookup for one vehicle type fails, run() creates no task
\* for that vehicle type, still creates a task for every brand and period of
\* the other vehicle types, and goes on to the end of the planning without
\* raising.
C39_FailedBrandLookupSkipsType ==
    /\ (\E l \in LookupsOf("brands") : ~lookups[l].ok) => step # "returned"
    /\ Planned
           => /\ Cardinality(LookupsOf("brands")) = Len(vehicle_type_codes)
              /\ \A vehicle_type_code \in Elems(vehicle_type_codes) :
                     /\ (\A l \in BrandLookups(vehicle_type_code) : ~lookups[l].ok)
                            => TasksOfType(vehicle_type_code) = {}
                     /\ (\E l \in BrandLookups(vehicle_type_code) : lookups[l].ok)
                            => /\ BrandUniverse(vehicle_type_code) # {}
                               /\ \A b \in BrandUniverse(vehicle_type_code) :
                                      \A i \in 1..Len(periods) :
                                          \E t \in TasksOfType(vehicle_type_code) :
                                              /\ tasks[t].brand.name = b.name
                                              /\ tasks[t].period.period = periods[i].period

\* the brand lookup for cars failed and the one for trucks did not: the
\* tasks are those of the trucks, for each of two periods
C39_Witness ==
    /\ step = "planned"
    /\ vehicle_type_codes = <<1, 3>>
    /\ Len(periods) = 2
    /\ \A l \in BrandLookups(1) : ~lookups[l].ok
    /\ \E l \in BrandLookups(3) : lookups[l].ok
    /\ TasksOfType(1) = {}
    /\ Cardinality(TasksOfType(3)) >= 2

-----------------------------------------------------------------------------
(* Properties of consolidation with unreadable files *)

\* the files json.load succeeds on, in the order they were read
ValidFilesAsRead == SelectSeq(FilesAsRead, LAMBDA file : file.valid)

\* C40: consolidate_partials skips a partial file whose content is not valid
\* JSON and consolidates every other partial file: the final artifact is the
\* one the other files alone give; and consolidation leaves every partial
\* file as it was.
C40_InvalidFileSkipped ==
    /\ [][(~final_file.written /\ final_file'.written) => partial_dir' = partial_dir]_vars
    /\ [](final_file.written
            => /\ Len(listing) = Len(partial_dir)
               /\ final_file.data = Consolidated(ValidFilesAsRead))

\* a directory was consolidated whose first file read was not valid JSON and
\* whose second file held entities, which are in the final artifact
C40_Witness ==
    /\ final_file.written
    /\ Len(listing) = 2
    /\ ~FilesAsRead[1].valid
    /\ FilesAsRead[2].valid
    /\ Len(FilesAsRead[2].data["brands"]) = 2
    /\ Len(final_file.data["brands"]) >= 1
    /\ ~partial_dir[listing[1]].valid

=============================================================================
